---- MODULE Spec2Model ----
(***************************************************************************)
(* Peer-to-peer database replication of databaseAPI/p2p_sync:              *)
(*   - conflict resolution of DataSyncManager._apply_peer_changes          *)
(*     (specification SpecApply: one node, incoming changesets),           *)
(*   - the per-(peer, table) bidirectional round of                        *)
(*     DataSyncManager._bidirectional_sync_table between two nodes         *)
(*     (specification SpecSync),                                           *)
(*   - the sync lock and the round entry points (specification SpecLock),  *)
(*   - the peer registry, verification and health check of PeerDiscovery   *)
(*     (specification SpecDisc).                                           *)
(* Every specification leaves the variables of the others at their         *)
(* initial values.                                                         *)
(***************************************************************************)
EXTENDS Integers, Sequences, FiniteSets, TLC

VARIABLES
    \* ---- SpecApply: one node applying incoming changesets
    hPc,        \* position of the harness
    hNode,      \* p2p_config.sync_config.node_id of the applying node
    hStore,     \* the table before the apply: id -> row or NoRow
    hSrc,       \* source_peer of the (first) changeset
    hCs,        \* the (first) changeset: sequence of changes
    hSrcB,      \* source_peer of the second changeset
    hCsB,       \* the second changeset
    hOnce,      \* the table after hCs was applied once
    hTwice,     \* the table after hCs was applied a second time
    hAB,        \* the table after hCs then hCsB
    hBA,        \* the table after hCsB then hCs
    \* ---- SpecSync: two nodes, one replicated table
    store,            \* node -> the node's table: id -> row or NoRow
    clock,            \* node -> datetime.now() / CURRENT_TIMESTAMP of the node
    last_sync_times,  \* node -> peer -> cursor of the table, or None
    rPc,              \* node -> position of the node's _bidirectional_sync_table
    rSince,           \* node -> last_sync of the round in flight
    rOur,             \* node -> our_changes["data"] of the round in flight
    rTheirs,          \* node -> peer_changes["data"] of the round in flight
    rSnap,            \* (history) node -> the ids each table held when the round began
    rClean,           \* (history) node -> no local mutation and no other round since it began
    rGetOk,           \* (history) node -> the GET of the round returned the peer's rows
    rKeyed,           \* node -> the answer to the GET has the key "data"
    rSendOk,          \* (history) node -> nothing to push, or the POST of the round succeeded
    synced,           \* (history) node -> ids whose stored version the peer applied or sent
    rEnd,             \* (history) node -> how its last run of the procedure failed, if it did
    \* ---- SpecLock: the rounds of one DataSyncManager with one peer and one table
    sync_lock,        \* the task holding self.sync_lock, or "free"
    sync_status,      \* self.sync_status
    lCursor,          \* self.last_sync_times[peer_id][table], or NoTime
    lNow,             \* datetime.now()
    tPc,              \* task -> position of the task's round
    lastWrite,        \* (history) the last write to sync_status or the cursor
    \* ---- SpecDisc: the peer registry of one node under discovery
    peers,            \* p2p_config.peers: peer -> PeerInfo, or NoPeer
    discovered_peers, \* PeerDiscovery.discovered_peers
    dNow,             \* datetime.now(), in minutes
    hcPc,             \* "sleeping", or "probing" (suspended in a probe)
    hcTime,           \* current_time of the pass in progress
    hcCur,            \* the (peer_id, peer.last_seen) the pass is probing
    hcSeen,           \* the peers the pass has taken from the iterator
    hcSize,           \* the size of the registry when the iterator was made
    inactive_peers,   \* inactive_peers of the pass in progress
    hcSlept,          \* the sleep after the last pass is over
    round_targets,    \* (history) the targets of the last sync round started
    failSince,        \* (history) peer -> first probe of its run of failed probes
    overdue,          \* (history) peer -> a pass begun over Grace into the run
                      \* found the peer failing
    evicted,          \* (history) overdue, as of the end of a completed pass
    \* ---- SpecMute: SpecDisc with a peer that never answers 200
    muteAdded,        \* (history) the record of Mute was stored by POST /p2p/peers
    muteRefused,      \* (history) an announcement of Mute failed its verification
    \* ---- SpecReg: the operations of the registry, own identity included
    regLast,          \* (history) the last operation and what it met and did
    \* ---- SpecApi: the endpoints and the mutation trigger of one node
    sync_interval,    \* p2p_config.sync_config.sync_interval, in seconds
    aPc,              \* "idle", "task" (a scheduled sync is running), "finished"
    aLast,            \* (history) the last request or trigger and its outcome
    aQueue,           \* the (peer, table) pairs the running sync has yet to do
    aRuns,            \* (history) the pairs the sync of aLast ran the table procedure for
    aCursors,         \* the (peer, table) pairs that have a cursor
    \* ---- SpecRound: the periodic and the forced rounds of one node
    nActive,          \* the peers whose status is "active" in the registry
    nPc,              \* "idle", or "running" inside _sync_with_peers / _bidirectional_sync_with_peers
    nKind,            \* "none", "periodic" or "forced": the round running or run last
    nPeers,           \* the list of peers the round was called with
    nPos,             \* the peer and the table the round is at
    nAttempts,        \* (history) (peer, table) -> calls of the table procedure in this round
    nStatus,          \* self.sync_status
    nFaults,          \* (history) failed fetches, pushes and applies of this round
    nClean,           \* (history) pairs of this round that met no such failure
    \* ---- SpecRows: one POST /p2p/apply-changes request with failing rows
    hFails,           \* for each row of hCs, how applying it fails, if it does
    hKeys,            \* self.sync_status has its keys (a locked round has run)
    hResp,            \* the status of the answer
    \* ---- SpecChain: three nodes in a line, each with its table, registry and cursors
    cStore,           \* node -> its table
    cCursor,          \* <<node, peer>> -> last_sync_times[peer][table] of the node
    cPeers,           \* node -> the active peers of its registry
    cNow,             \* the time
    cLast,            \* (history) the last run of the table procedure
    cRemoved,         \* (history) <<node, peer>> -> the peer was removed since the pair's last run
    \* ---- SpecRace: two applies of one row each, at the same time on one node
    qSelf,            \* p2p_config.sync_config.node_id of the node
    qTable,           \* the committed rows of the table
    qChange,          \* apply -> its change
    qPc,              \* apply -> "start", "begun", "selected", "written", "done"
    qSeen,            \* apply -> the row its SELECT returned, or NoRow
    qWrite,           \* apply -> the row its transaction wrote, or NoRow
    qErr              \* apply -> its statement raised

applyVars == <<hPc, hNode, hStore, hSrc, hCs, hSrcB, hCsB, hOnce, hTwice, hAB, hBA>>

roundVars == <<rPc, rSince, rOur, rTheirs, rSnap, rClean, rGetOk, rKeyed, rSendOk>>

syncVars == <<store, clock, last_sync_times, roundVars, synced, rEnd>>

lockVars == <<sync_lock, sync_status, lCursor, lNow, tPc, lastWrite>>

passVars == <<hcPc, hcTime, hcCur, hcSeen, hcSize, inactive_peers, hcSlept>>
discHist == <<round_targets, failSince, overdue, evicted>>
discVars == <<peers, discovered_peers, dNow, passVars, discHist>>

muteVars == <<muteAdded, muteRefused>>

regVars == <<regLast>>

apiVars == <<sync_interval, aPc, aLast, aQueue, aRuns, aCursors>>

roundsVars == <<nActive, nPc, nKind, nPeers, nPos, nAttempts, nStatus, nFaults, nClean>>

rowsVars == <<hFails, hKeys, hResp>>

chainVars == <<cStore, cCursor, cPeers, cNow, cLast, cRemoved>>

raceVars == <<qSelf, qTable, qChange, qPc, qSeen, qWrite, qErr>>

vars == <<applyVars, syncVars, lockVars, discVars, muteVars, regVars, apiVars, roundsVars,
          rowsVars, chainVars, raceVars>>

\* what the actions of each specification leave alone
restOfApply == <<syncVars, lockVars, discVars, muteVars, regVars, apiVars, roundsVars, rowsVars, chainVars, raceVars>>
restOfSync == <<applyVars, lockVars, discVars, muteVars, regVars, apiVars, roundsVars, rowsVars, chainVars, raceVars>>
restOfLock == <<applyVars, syncVars, discVars, muteVars, regVars, apiVars, roundsVars, rowsVars, chainVars, raceVars>>
restOfDisc == <<applyVars, syncVars, lockVars, muteVars, regVars, apiVars, roundsVars, rowsVars, chainVars, raceVars>>
restOfMute == <<applyVars, syncVars, lockVars, regVars, apiVars, roundsVars, rowsVars, chainVars, raceVars>>
restOfReg == <<applyVars, syncVars, lockVars, muteVars, apiVars, roundsVars, rowsVars, chainVars, raceVars>>
restOfApi == <<applyVars, syncVars, lockVars, discVars, muteVars, regVars, roundsVars, rowsVars, chainVars, raceVars>>
restOfRound == <<applyVars, syncVars, lockVars, discVars, muteVars, regVars, apiVars, rowsVars, chainVars, raceVars>>
restOfRows == <<syncVars, lockVars, discVars, muteVars, regVars, apiVars, roundsVars, chainVars, raceVars>>
restOfRace == <<applyVars, syncVars, lockVars, discVars, muteVars, regVars, apiVars, roundsVars,
                rowsVars, chainVars>>
restOfChain == <<applyVars, syncVars, lockVars, discVars, muteVars, regVars, apiVars, roundsVars,
                 rowsVars, raceVars>>

----------------------------------------------------------------------------
\* Bounds of the model

\* timestamps (updated_at, clocks) 1..MaxTime
MaxTime == 2
\* longest changeset of SpecApply
MaxCsLen == 2
\* rounds of SpecSync in flight at the same time, over both nodes
MaxInFlight == 1
\* largest conflicts_resolved of SpecLock
MaxConflicts == 2
\* minutes of SpecDisc
MaxMinutes == 5
\* longest table list of a notification in SpecApi
MaxTables == 2

\* row ids of the table
Keys == {1, 2}
Times == 1..MaxTime
\* payloads of a row (all the columns other than id and updated_at)
Vals == {1, 2}

\* A node identity is a string: a sequence of code points. "a" = <<1>>,
\* "ab" = <<1, 2>>, "b" = <<2>>.
NodeIds == {<<1>>, <<1, 2>>, <<2>>}

NoRow == [absent |-> TRUE]
\* change.get('id') is falsy
MissingId == 0
None == "None"
\* no cursor yet: last_sync_times[peer_id].get(table) is None
NoTime == 0

----------------------------------------------------------------------------
\* Python's str.__gt__: lexicographic order on code points
RECURSIVE StrGt(_, _)
StrGt(a, b) ==
    IF a = <<>> THEN FALSE
    ELSE IF b = <<>> THEN TRUE
    ELSE IF Head(a) # Head(b) THEN Head(a) > Head(b)
    ELSE StrGt(Tail(a), Tail(b))

\* datetime.isoformat() and datetime.fromisoformat(): the wire carries the
\* timestamp as text
IsoFormat(t) == <<"iso", t>>
FromIsoFormat(s) == s[2]

\* A stored row: updated_at is a datetime, val stands for every other column
Row(t, v) == [updated_at |-> t, val |-> v]
Rows == {Row(t, v) : t \in Times, v \in Vals}
Stores == [Keys -> Rows \cup {NoRow}]

\* A change on the wire: a row dictionary with the timestamp as ISO text
Change(k, t, v) == [id |-> k, updated_at |-> IsoFormat(t), val |-> v, change_type |-> "UPDATE"]
Changes == {Change(k, t, v) : k \in Keys \cup {MissingId}, t \in Times, v \in Vals}

\* _update_record / _insert_record: drop the metadata keys, convert the *_at
\* columns back to datetime
RecordData(change) == Row(FromIsoFormat(change.updated_at), change.val)

\* A faulty variant of _update_record, the UPDATE without its WHERE clause:
\* every row of the table is set
UpdateRecordNoWhere(st, change) ==
    [k \in DOMAIN st |-> IF st[k] # NoRow THEN RecordData(change) ELSE st[k]]

\* UPDATE <table> SET <every column but id> WHERE id = %s
UpdateRecord(st, change) ==
    [st EXCEPT ![change.id] = RecordData(change)]

\* INSERT ... ON CONFLICT (id) DO NOTHING
InsertRecord(st, change) ==
    IF st[change.id] = NoRow
    THEN [st EXCEPT ![change.id] = RecordData(change)]
    ELSE st

\* A faulty variant of the conflict branch: the node ids are compared
\* without the timestamps
KeepLocalIdOnly(existing, change, self, source) ==
    StrGt(self, source)

\* The conflict branch of _apply_single_change: the local row is kept
KeepLocal(existing, change, self, source) ==
    /\ existing.updated_at >= FromIsoFormat(change.updated_at)
    /\ StrGt(self, source)

\* _apply_single_change: the table after one change from source is applied on
\* node self
ApplySingleChange(st, change, self, source) ==
    IF change.id = MissingId THEN st
    ELSE IF st[change.id] # NoRow
         THEN IF KeepLocal(st[change.id], change, self, source)
              THEN st
              ELSE UpdateRecord(st, change)
         ELSE InsertRecord(st, change)

\* _apply_peer_changes: the rows of the changeset in order, then COMMIT
RECURSIVE ApplyPeerChanges(_, _, _, _)
ApplyPeerChanges(st, data, self, source) ==
    IF data = <<>> THEN st
    ELSE ApplyPeerChanges(ApplySingleChange(st, Head(data), self, source),
                          Tail(data), self, source)

----------------------------------------------------------------------------
\* SpecApply

SeqsUpTo(S, n) == UNION {[1..m -> S] : m \in 0..n}

ApplyVarsInit ==
    /\ hPc = "start"
    /\ hNode = None
    /\ hStore = None
    /\ hSrc = None
    /\ hCs = None
    /\ hSrcB = None
    /\ hCsB = None
    /\ hOnce = None
    /\ hTwice = None
    /\ hAB = None
    /\ hBA = None

\* A node with some table content receives POST /p2p/apply-changes/{table}
\* (or pulls the rows itself) from another node, hSrc
HReceive ==
    /\ hPc = "start"
    /\ hNode' \in NodeIds
    /\ hStore' \in Stores
    /\ hSrc' \in NodeIds \ {hNode'}
    /\ hCs' \in SeqsUpTo(Changes, MaxCsLen)
    /\ hPc' = "received"
    /\ UNCHANGED <<hSrcB, hCsB, hOnce, hTwice, hAB, hBA>>

\* The changeset is applied
HApplyOnce ==
    /\ hPc = "received"
    /\ hOnce' = ApplyPeerChanges(hStore, hCs, hNode, hSrc)
    /\ hPc' = "once"
    /\ UNCHANGED <<hNode, hStore, hSrc, hCs, hSrcB, hCsB, hTwice, hAB, hBA>>

\* The same changeset is delivered and applied again
HApplyTwice ==
    /\ hPc = "once"
    /\ hTwice' = ApplyPeerChanges(hOnce, hCs, hNode, hSrc)
    /\ hPc' = "twice"
    /\ UNCHANGED <<hNode, hStore, hSrc, hCs, hSrcB, hCsB, hOnce, hAB, hBA>>

\* Two peers each send one version of the same row
HReceiveTwo ==
    /\ hPc = "start"
    /\ hNode' \in NodeIds
    /\ hStore' \in Stores
    /\ hSrc' \in NodeIds \ {hNode'}
    /\ hSrcB' \in NodeIds \ {hNode'}
    /\ \E k \in Keys, ta \in Times, tb \in Times, va \in Vals, vb \in Vals :
         /\ hCs' = <<Change(k, ta, va)>>
         /\ hCsB' = <<Change(k, tb, vb)>>
    /\ hPc' = "two"
    /\ UNCHANGED <<hOnce, hTwice, hAB, hBA>>

\* The two versions are applied in both orders
HApplyBothOrders ==
    /\ hPc = "two"
    /\ hAB' = ApplyPeerChanges(ApplyPeerChanges(hStore, hCs, hNode, hSrc), hCsB, hNode, hSrcB)
    /\ hBA' = ApplyPeerChanges(ApplyPeerChanges(hStore, hCsB, hNode, hSrcB), hCs, hNode, hSrc)
    /\ hPc' = "ordered"
    /\ UNCHANGED <<hNode, hStore, hSrc, hCs, hSrcB, hCsB, hOnce, hTwice>>

ApplyNext ==
    \/ HReceive /\ UNCHANGED restOfApply
    \/ HApplyOnce /\ UNCHANGED restOfApply
    \/ HApplyTwice /\ UNCHANGED restOfApply
    \/ HReceiveTwo /\ UNCHANGED restOfApply
    \/ HApplyBothOrders /\ UNCHANGED restOfApply

----------------------------------------------------------------------------
\* SpecSync: nodes "a" and "b", each with its own table, clock and cursor

NodeA == <<1>>
NodeB == <<2>>
SyncNodes == {NodeA, NodeB}
\* row ids of the replicated table of SpecSync
SyncKeys == {1}
Peer(n) == IF n = NodeA THEN NodeB ELSE NodeA

\* the payload a local mutation on node n writes
ValOf(n) == Head(n)

\* a row of the full table read: no change_type column
FullRow(k, row) == [id |-> k, updated_at |-> IsoFormat(row.updated_at), val |-> row.val]
ChangeOf(k, row) == Change(k, row.updated_at, row.val)

\* ORDER BY id
RECURSIVE OrderById(_)
OrderById(S) ==
    IF S = {} THEN <<>>
    ELSE LET k == CHOOSE x \in S : \A y \in S : x <= y
         IN  <<k>> \o OrderById(S \ {k})

\* ORDER BY updated_at (rows of equal updated_at by id)
RECURSIVE OrderByUpdatedAt(_, _)
OrderByUpdatedAt(st, S) ==
    IF S = {} THEN <<>>
    ELSE LET k == CHOOSE x \in S : \A y \in S :
                      \/ st[x].updated_at < st[y].updated_at
                      \/ st[x].updated_at = st[y].updated_at /\ x <= y
         IN  <<k>> \o OrderByUpdatedAt(st, S \ {k})

\* _get_full_table_data: SELECT ... ORDER BY id
GetFullTableData(st) ==
    LET ids == OrderById({k \in SyncKeys : st[k] # NoRow})
    IN  [i \in 1..Len(ids) |-> FullRow(ids[i], st[ids[i]])]

\* A faulty variant of GetTableChangesSince: the whole table whatever since is
GetTableChangesSinceAlwaysFull(st, since) == GetFullTableData(st)

\* _get_table_changes_since: everything when since is None (NoTime), else
\* SELECT ... WHERE updated_at > since ORDER BY updated_at
GetTableChangesSince(st, since) ==
    IF since = NoTime THEN GetFullTableData(st)
    ELSE LET ids == OrderByUpdatedAt(st, {k \in SyncKeys : st[k] # NoRow /\ st[k].updated_at > since})
         IN  [i \in 1..Len(ids) |-> ChangeOf(ids[i], st[ids[i]])]

\* the since query parameter: isoformat on the initiator, fromisoformat in
\* the peer's get_table_changes
SinceParam(since) == IF since = NoTime THEN NoTime ELSE FromIsoFormat(IsoFormat(since))

\* the ids a table holds
Present(st) == {k \in DOMAIN st : st[k] # NoRow}

IdsOf(data) == {data[i].id : i \in 1..Len(data)}
ChangeFor(data, k) == data[CHOOSE i \in 1..Len(data) : data[i].id = k]

\* ids whose row in st is the version the changeset carries
SameVersion(st, data) ==
    {k \in IdsOf(data) \cap SyncKeys : st[k] = RecordData(ChangeFor(data, k))}

NoSnap == [own |-> {}, peer |-> {}]

\* how a run of the procedure left by an exception ended: that
\* _apply_peer_changes raised, whether the push went through, and the cursor
\* the run started from
NoEnd == [ended |-> FALSE, raised |-> FALSE, sendOk |-> TRUE, before |-> NoTime]
Ended(raised, sendOk, before) ==
    [ended |-> TRUE, raised |-> raised, sendOk |-> sendOk, before |-> before]

SyncVarsInit ==
    /\ store = [n \in SyncNodes |-> [k \in SyncKeys |-> NoRow]]
    /\ clock = [n \in SyncNodes |-> 1]
    /\ last_sync_times = [n \in SyncNodes |-> [p \in {Peer(n)} |-> NoTime]]
    /\ rPc = [n \in SyncNodes |-> "idle"]
    /\ rSince = [n \in SyncNodes |-> NoTime]
    /\ rOur = [n \in SyncNodes |-> <<>>]
    /\ rTheirs = [n \in SyncNodes |-> <<>>]
    /\ rSnap = [n \in SyncNodes |-> NoSnap]
    /\ rClean = [n \in SyncNodes |-> TRUE]
    /\ rGetOk = [n \in SyncNodes |-> TRUE]
    /\ rKeyed = [n \in SyncNodes |-> TRUE]
    /\ rSendOk = [n \in SyncNodes |-> TRUE]
    /\ synced = [n \in SyncNodes |-> {}]
    /\ rEnd = [n \in SyncNodes |-> NoEnd]

\* the node's clock advances
Tick(n) ==
    /\ clock[n] < MaxTime
    /\ clock' = [clock EXCEPT ![n] = @ + 1]
    /\ UNCHANGED <<store, last_sync_times, roundVars, synced, rEnd>>

\* every round in flight has seen a mutation
Disturbed == [m \in SyncNodes |-> IF rPc[m] = "idle" THEN rClean[m] ELSE FALSE]

\* A CRUD route creates or updates row k on node n: updated_at = CURRENT_TIMESTAMP
LocalMutate(n, k) ==
    /\ store' = [store EXCEPT ![n][k] = Row(clock[n], ValOf(n))]
    /\ synced' = [synced EXCEPT ![n] = @ \ {k}]
    /\ rClean' = Disturbed
    /\ UNCHANGED <<clock, last_sync_times, rPc, rSince, rOur, rTheirs, rSnap, rGetOk, rKeyed, rSendOk, rEnd>>

\* _bidirectional_sync_table, lines 90-94: last_sync and our_changes
SyncBegin(n) ==
    /\ rPc[n] = "idle"
    /\ Cardinality({m \in SyncNodes : rPc[m] # "idle"}) < MaxInFlight
    /\ rSince' = [rSince EXCEPT ![n] = last_sync_times[n][Peer(n)]]
    /\ rOur' = [rOur EXCEPT ![n] = GetTableChangesSince(store[n], last_sync_times[n][Peer(n)])]
    /\ rPc' = [rPc EXCEPT ![n] = "get"]
    /\ rSnap' = [rSnap EXCEPT ![n] = [own |-> Present(store[n]), peer |-> Present(store[Peer(n)])]]
    /\ rClean' = [m \in SyncNodes |-> IF rPc[Peer(m)] = "idle" THEN (m = n \/ rClean[m]) ELSE FALSE]
    /\ rEnd' = [rEnd EXCEPT ![n] = NoEnd]
    /\ UNCHANGED <<store, clock, last_sync_times, rTheirs, rGetOk, rKeyed, rSendOk, synced>>

\* _get_peer_table_changes_since: the peer answers 200 with its rows, or the
\* GET fails and the data is empty, or the answer is 200 with a JSON body
\* that has no key "data", which is returned as it is
SyncGetPeer(n) ==
    /\ rPc[n] = "get"
    /\ \/ /\ rTheirs' = [rTheirs EXCEPT ![n] = GetTableChangesSince(store[Peer(n)], SinceParam(rSince[n]))]
          /\ rGetOk' = [rGetOk EXCEPT ![n] = TRUE]
          /\ rKeyed' = [rKeyed EXCEPT ![n] = TRUE]
       \/ /\ rTheirs' = [rTheirs EXCEPT ![n] = <<>>]
          /\ rGetOk' = [rGetOk EXCEPT ![n] = FALSE]
          /\ rKeyed' = [rKeyed EXCEPT ![n] = TRUE]
       \/ /\ rTheirs' = [rTheirs EXCEPT ![n] = <<>>]
          /\ rGetOk' = [rGetOk EXCEPT ![n] = FALSE]
          /\ rKeyed' = [rKeyed EXCEPT ![n] = FALSE]
    /\ rPc' = [rPc EXCEPT ![n] = "send"]
    /\ UNCHANGED <<store, clock, last_sync_times, rSince, rOur, rSnap, rClean, rSendOk, synced, rEnd>>

\* _send_changes_to_peer when our_changes["data"] is not empty: the peer's
\* apply_table_changes applies the rows with source_node = n, or the POST
\* fails, which is logged and nothing more
SyncSend(n) ==
    /\ rPc[n] = "send"
    /\ \/ /\ rOur[n] = <<>>
          /\ rSendOk' = [rSendOk EXCEPT ![n] = TRUE]
          /\ UNCHANGED <<store, synced, rClean>>
       \/ /\ rOur[n] # <<>>
          /\ LET p == Peer(n)
                 after == ApplyPeerChanges(store[p], rOur[n], p, n)
             IN  /\ store' = [store EXCEPT ![p] = after]
                 /\ synced' = [m \in SyncNodes |->
                                 IF m = n THEN synced[n] \cup SameVersion(store[n], rOur[n])
                                 ELSE {k \in synced[p] : after[k] = store[p][k]}
                                          \cup SameVersion(after, rOur[n])]
                 /\ rClean' = [rClean EXCEPT ![p] = IF rPc[p] = "idle" THEN @ ELSE FALSE]
          /\ rSendOk' = [rSendOk EXCEPT ![n] = TRUE]
       \/ /\ rOur[n] # <<>>
          /\ rSendOk' = [rSendOk EXCEPT ![n] = FALSE]
          /\ UNCHANGED <<store, synced, rClean>>
    /\ rPc' = [rPc EXCEPT ![n] = "apply"]
    /\ UNCHANGED <<clock, last_sync_times, rSince, rOur, rTheirs, rSnap, rGetOk, rKeyed, rEnd>>

\* _apply_peer_changes when peer_changes["data"] is not empty, then
\* last_sync_times[peer_id][table] = datetime.now()
SyncApply(n) ==
    /\ rPc[n] = "apply"
    /\ rKeyed[n]
    /\ LET p == Peer(n)
           after == ApplyPeerChanges(store[n], rTheirs[n], n, p)
       IN  /\ store' = [store EXCEPT ![n] = after]
           /\ synced' = [m \in SyncNodes |->
                           IF m = n THEN {k \in synced[n] : after[k] = store[n][k]}
                                             \cup SameVersion(after, rTheirs[n])
                           ELSE synced[p] \cup SameVersion(store[p], rTheirs[n])]
           /\ rClean' = [rClean EXCEPT ![p] = IF rPc[p] = "idle" \/ after = store[n] THEN @ ELSE FALSE]
    /\ last_sync_times' = [last_sync_times EXCEPT ![n][Peer(n)] = clock[n]]
    /\ rPc' = [rPc EXCEPT ![n] = "done"]
    /\ UNCHANGED <<clock, rSince, rOur, rTheirs, rSnap, rGetOk, rKeyed, rSendOk, rEnd>>

\* A faulty variant of SyncApplyFail: the cursor is written although
\* _apply_peer_changes raised
SyncApplyFailAdvances(n) ==
    /\ rPc[n] = "apply"
    /\ rTheirs[n] # <<>>
    /\ rPc' = [rPc EXCEPT ![n] = "idle"]
    /\ rSince' = [rSince EXCEPT ![n] = NoTime]
    /\ rOur' = [rOur EXCEPT ![n] = <<>>]
    /\ rTheirs' = [rTheirs EXCEPT ![n] = <<>>]
    /\ rSnap' = [rSnap EXCEPT ![n] = NoSnap]
    /\ rClean' = [rClean EXCEPT ![n] = TRUE]
    /\ rGetOk' = [rGetOk EXCEPT ![n] = TRUE]
    /\ rKeyed' = [rKeyed EXCEPT ![n] = TRUE]
    /\ rSendOk' = [rSendOk EXCEPT ![n] = TRUE]
    /\ rEnd' = [rEnd EXCEPT ![n] = Ended(TRUE, rSendOk[n], last_sync_times[n][Peer(n)])]
    /\ last_sync_times' = [last_sync_times EXCEPT ![n][Peer(n)] = clock[n]]
    /\ UNCHANGED <<store, clock, synced>>

\* _apply_peer_changes raises (a storage error: ROLLBACK, raise): the cursor
\* is not written and _sync_with_peer records the error
SyncApplyFail(n) ==
    /\ rPc[n] = "apply"
    /\ rTheirs[n] # <<>>
    /\ rPc' = [rPc EXCEPT ![n] = "idle"]
    /\ rSince' = [rSince EXCEPT ![n] = NoTime]
    /\ rOur' = [rOur EXCEPT ![n] = <<>>]
    /\ rTheirs' = [rTheirs EXCEPT ![n] = <<>>]
    /\ rSnap' = [rSnap EXCEPT ![n] = NoSnap]
    /\ rClean' = [rClean EXCEPT ![n] = TRUE]
    /\ rGetOk' = [rGetOk EXCEPT ![n] = TRUE]
    /\ rKeyed' = [rKeyed EXCEPT ![n] = TRUE]
    /\ rSendOk' = [rSendOk EXCEPT ![n] = TRUE]
    /\ rEnd' = [rEnd EXCEPT ![n] = Ended(TRUE, rSendOk[n], last_sync_times[n][Peer(n)])]
    /\ UNCHANGED <<store, clock, last_sync_times, synced>>

\* peer_changes["data"] of line 102 raises KeyError on an answer without
\* the key, after the push of lines 98-99: the cursor is not written
SyncKeyError(n) ==
    /\ rPc[n] = "apply"
    /\ ~rKeyed[n]
    /\ rPc' = [rPc EXCEPT ![n] = "idle"]
    /\ rSince' = [rSince EXCEPT ![n] = NoTime]
    /\ rOur' = [rOur EXCEPT ![n] = <<>>]
    /\ rTheirs' = [rTheirs EXCEPT ![n] = <<>>]
    /\ rSnap' = [rSnap EXCEPT ![n] = NoSnap]
    /\ rClean' = [rClean EXCEPT ![n] = TRUE]
    /\ rGetOk' = [rGetOk EXCEPT ![n] = TRUE]
    /\ rKeyed' = [rKeyed EXCEPT ![n] = TRUE]
    /\ rSendOk' = [rSendOk EXCEPT ![n] = TRUE]
    /\ UNCHANGED <<store, clock, last_sync_times, synced, rEnd>>

\* back in _sync_with_peer: tables_synced += 1
SyncReturn(n) ==
    /\ rPc[n] = "done"
    /\ rPc' = [rPc EXCEPT ![n] = "idle"]
    /\ rSince' = [rSince EXCEPT ![n] = NoTime]
    /\ rOur' = [rOur EXCEPT ![n] = <<>>]
    /\ rTheirs' = [rTheirs EXCEPT ![n] = <<>>]
    /\ rSnap' = [rSnap EXCEPT ![n] = NoSnap]
    /\ rClean' = [rClean EXCEPT ![n] = TRUE]
    /\ rGetOk' = [rGetOk EXCEPT ![n] = TRUE]
    /\ rKeyed' = [rKeyed EXCEPT ![n] = TRUE]
    /\ rSendOk' = [rSendOk EXCEPT ![n] = TRUE]
    /\ UNCHANGED <<store, clock, last_sync_times, synced, rEnd>>

SyncNext ==
    \/ \E n \in SyncNodes : Tick(n) /\ UNCHANGED restOfSync
    \/ \E n \in SyncNodes, k \in SyncKeys : LocalMutate(n, k) /\ UNCHANGED restOfSync
    \/ \E n \in SyncNodes : SyncBegin(n) /\ UNCHANGED restOfSync
    \/ \E n \in SyncNodes : SyncGetPeer(n) /\ UNCHANGED restOfSync
    \/ \E n \in SyncNodes : SyncSend(n) /\ UNCHANGED restOfSync
    \/ \E n \in SyncNodes : SyncApply(n) /\ UNCHANGED restOfSync
    \/ \E n \in SyncNodes : SyncApplyFail(n) /\ UNCHANGED restOfSync
    \/ \E n \in SyncNodes : SyncKeyError(n) /\ UNCHANGED restOfSync
    \/ \E n \in SyncNodes : SyncReturn(n) /\ UNCHANGED restOfSync

----------------------------------------------------------------------------
\* SpecLock: the tasks of one node that run sync rounds

\* _periodic_sync; POST /p2p/sync/bidirectional; POST /p2p/notify-changes;
\* trigger_sync_after_data_change
LockTasks == {"periodic", "forced", "notified", "mutation"}

\* the rounds that run inside "async with self.sync_lock":
\* _sync_with_peers and _bidirectional_sync_with_peers
TakesLock(t) == t \in {"periodic", "forced"}

\* self.sync_status = {} of __init__: no key at all
EmptyStatus == [keys |-> FALSE, tables_synced |-> 0, conflicts_resolved |-> 0,
                errors |-> 0, end_time |-> FALSE]
\* the dictionary a round under the lock starts with
FreshStatus == [keys |-> TRUE, tables_synced |-> 0, conflicts_resolved |-> 0,
                errors |-> 0, end_time |-> FALSE]

NoWrite == [by |-> "none", held |-> TRUE]
\* a write by task t, with the lock as it is held during the write
WriteBy(t, lock) == [by |-> t, held |-> lock = t]

LockVarsInit ==
    /\ sync_lock = "free"
    /\ sync_status = EmptyStatus
    /\ lCursor = NoTime
    /\ lNow = 1
    /\ tPc = [t \in LockTasks |-> "idle"]
    /\ lastWrite = NoWrite

LTick ==
    /\ lNow < MaxTime
    /\ lNow' = lNow + 1
    /\ UNCHANGED <<sync_lock, sync_status, lCursor, tPc, lastWrite>>

\* _sync_with_peers / _bidirectional_sync_with_peers: the lock is taken, the
\* status is reset, and the round suspends in the first table's network calls
LockedRoundStart(t) ==
    /\ TakesLock(t)
    /\ tPc[t] = "idle"
    /\ sync_lock = "free"
    /\ sync_lock' = t
    /\ sync_status' = FreshStatus
    /\ lastWrite' = WriteBy(t, t)
    /\ tPc' = [tPc EXCEPT ![t] = "table"]
    /\ UNCHANGED <<lCursor, lNow>>

\* _sync_specific_tables_with_peer: no lock; the round suspends in the
\* table's network calls
TargetedRoundStart(t) ==
    /\ ~TakesLock(t)
    /\ tPc[t] = "idle"
    /\ tPc' = [tPc EXCEPT ![t] = "table"]
    /\ UNCHANGED <<sync_lock, sync_status, lCursor, lNow, lastWrite>>

\* sync_status["conflicts_resolved"] += conflict_count of _apply_peer_changes
AddConflicts(st, c) == [st EXCEPT !.conflicts_resolved = @ + c]

\* A faulty variant of the cursor write: a run that received nothing from
\* the peer leaves no cursor, so that the next exchange is a full one
CursorOnlyWhenReceived(cur, now, received) == IF received THEN now ELSE NoTime

\* current_time = datetime.now(); last_sync_times[peer_id][table] = current_time
CursorAfterSync(cur, now, received) == now

\* The table procedure resumes after its network calls: peer changes, if
\* any, are applied (conflicts_resolved is written), the cursor is written;
\* under the lock tables_synced and end_time follow and the lock is released
TableSynced(t, received, c) ==
    /\ tPc[t] = "table"
    /\ received => sync_status.keys
    /\ sync_status.conflicts_resolved + c <= MaxConflicts
    /\ LET applied == IF received THEN AddConflicts(sync_status, c) ELSE sync_status
       IN  sync_status' = IF TakesLock(t)
                          THEN [applied EXCEPT !.tables_synced = @ + 1, !.end_time = TRUE]
                          ELSE applied
    /\ lCursor' = CursorAfterSync(lCursor, lNow, received)
    /\ lastWrite' = WriteBy(t, sync_lock)
    /\ sync_lock' = IF TakesLock(t) THEN "free" ELSE sync_lock
    /\ tPc' = [tPc EXCEPT ![t] = "idle"]
    /\ UNCHANGED lNow

\* The table procedure raises: a storage error, or KeyError when
\* _apply_peer_changes adds to a sync_status that has no key. The cursor is
\* not written; under the lock the error is appended, end_time is written
\* and the lock is released
TableFailed(t) ==
    /\ tPc[t] = "table"
    /\ IF TakesLock(t)
       THEN /\ sync_status' = [sync_status EXCEPT !.errors = 1, !.end_time = TRUE]
            /\ lastWrite' = WriteBy(t, sync_lock)
            /\ sync_lock' = "free"
       ELSE UNCHANGED <<sync_status, lastWrite, sync_lock>>
    /\ tPc' = [tPc EXCEPT ![t] = "idle"]
    /\ UNCHANGED <<lCursor, lNow>>

LockNext ==
    \/ LTick /\ UNCHANGED restOfLock
    \/ \E t \in LockTasks : LockedRoundStart(t) /\ UNCHANGED restOfLock
    \/ \E t \in LockTasks : TargetedRoundStart(t) /\ UNCHANGED restOfLock
    \/ \E t \in LockTasks, received \in BOOLEAN, c \in 0..1 :
           TableSynced(t, received, c) /\ UNCHANGED restOfLock
    \/ \E t \in LockTasks : TableFailed(t) /\ UNCHANGED restOfLock

----------------------------------------------------------------------------
\* SpecDisc: announcements, membership requests, health checks and the
\* start of sync rounds at one node. Time is in minutes.

DiscPeers == {"p1", "p2"}
Minutes == 1..MaxMinutes
\* timedelta(minutes=2) of _check_peer_health
Grace == 2
Outcomes == {"200", "non200", "exception"}

NoPeer == [absent |-> TRUE]
PeerInfo(status, seen) == [status |-> status, last_seen |-> seen]
NoCur == [peer_id |-> "none", last_seen |-> NoTime]

Known(ps) == {p \in DOMAIN ps : ps[p] # NoPeer}

\* P2PConfig.get_active_peers
GetActivePeers(ps) == {p \in Known(ps) : ps[p].status = "active"}

\* P2PConfig.add_peer
AddPeer(ps, p, info) == [ps EXCEPT ![p] = info]

\* P2PConfig.remove_peer: if peer_id in self.peers: del self.peers[peer_id]
RemovePeer(ps, p) ==
    IF ps[p] # NoPeer THEN [ps EXCEPT ![p] = NoPeer] ELSE ps

\* A faulty variant of update_peer_status: the status is stored without
\* looking the peer up first
UpdatePeerStatusUnguarded(ps, p, status, now) ==
    [ps EXCEPT ![p] = PeerInfo(status, now)]

\* P2PConfig.update_peer_status: if peer_id in self.peers, status and
\* last_seen of the record are set
UpdatePeerStatus(ps, p, status, now) ==
    IF ps[p] # NoPeer
    THEN [ps EXCEPT ![p].status = status, ![p].last_seen = now]
    ELSE ps

RECURSIVE RemoveAll(_, _)
RemoveAll(ps, gone) ==
    IF gone = {} THEN ps
    ELSE LET p == CHOOSE q \in gone : TRUE
         IN  RemoveAll(RemovePeer(ps, p), gone \ {p})

DiscVarsInit ==
    /\ peers = [p \in DiscPeers |-> NoPeer]
    /\ discovered_peers = {}
    /\ dNow = 1
    /\ hcPc = "sleeping"
    /\ hcTime = NoTime
    /\ hcCur = NoCur
    /\ hcSeen = {}
    /\ hcSize = 0
    /\ inactive_peers = {}
    /\ hcSlept = TRUE
    /\ round_targets = {}
    /\ failSince = [p \in DiscPeers |-> NoTime]
    /\ overdue = [p \in DiscPeers |-> FALSE]
    /\ evicted = [p \in DiscPeers |-> FALSE]

\* a minute passes; asyncio.sleep(60) of _start_health_check is over
DTick ==
    /\ dNow < MaxMinutes
    /\ dNow' = dNow + 1
    /\ hcSlept' = (hcPc = "sleeping")
    /\ UNCHANGED <<peers, discovered_peers, hcPc, hcTime, hcCur, hcSeen, hcSize,
                   inactive_peers, discHist>>

\* the peer is admitted again: its run of failed probes is over
Readmit(p) ==
    /\ failSince' = [failSince EXCEPT ![p] = NoTime]
    /\ overdue' = [overdue EXCEPT ![p] = FALSE]
    /\ evicted' = [evicted EXCEPT ![p] = FALSE]

\* _handle_peer_announcement and _verify_and_add_peer, the status request
\* answered 200: the announced record is stored
AnnounceVerified(p) ==
    /\ peers' = AddPeer(peers, p, PeerInfo("active", dNow))
    /\ discovered_peers' = discovered_peers \cup {p}
    /\ Readmit(p)
    /\ UNCHANGED <<dNow, passVars, round_targets>>

\* POST /p2p/peers: the record of the request is stored, unverified; its
\* status is the default of PeerInfo
ManualAdd(p) ==
    /\ peers' = AddPeer(peers, p, PeerInfo("active", dNow))
    /\ Readmit(p)
    /\ UNCHANGED <<discovered_peers, dNow, passVars, round_targets>>

\* DELETE /p2p/peers/{peer_id}
ManualRemove(p) ==
    /\ peers[p] # NoPeer
    /\ peers' = RemovePeer(peers, p)
    /\ UNCHANGED <<discovered_peers, dNow, passVars, discHist>>

\* _periodic_sync, trigger_bidirectional_sync, notify_data_changes,
\* trigger_sync_after_data_change: a round targets the active peers
StartRound ==
    /\ GetActivePeers(peers) # {}
    /\ round_targets' = GetActivePeers(peers)
    /\ UNCHANGED <<peers, discovered_peers, dNow, passVars, failSince, overdue, evicted>>

\* the pass is over: its locals are gone; od are the peers a pass that ran
\* to its removals found overdue, and rounds started before a peer became
\* evicted are forgotten
EndOfPass(od) ==
    /\ hcPc' = "sleeping"
    /\ hcTime' = NoTime
    /\ hcCur' = NoCur
    /\ hcSeen' = {}
    /\ hcSize' = 0
    /\ inactive_peers' = {}
    /\ evicted' = [p \in DiscPeers |-> evicted[p] \/ od[p]]
    /\ round_targets' = {p \in round_targets : evicted[p] \/ ~od[p]}

\* _check_peer_health up to its first suspension: current_time is read and
\* the first peer is taken from the iterator; an empty registry ends the pass
HealthStart ==
    /\ hcPc = "sleeping"
    /\ hcSlept
    /\ IF Known(peers) = {}
       THEN /\ hcSlept' = FALSE
            /\ UNCHANGED <<hcPc, hcTime, hcCur, hcSeen, hcSize>>
       ELSE /\ hcTime' = dNow
            /\ hcSize' = Cardinality(Known(peers))
            /\ \E p \in Known(peers) :
                   /\ hcCur' = [peer_id |-> p, last_seen |-> peers[p].last_seen]
                   /\ hcSeen' = {p}
            /\ hcPc' = "probing"
            /\ UNCHANGED hcSlept
    /\ UNCHANGED <<peers, discovered_peers, dNow, inactive_peers, discHist>>

\* The probe of hcCur returns, and the pass runs to its next suspension:
\* the next probe, or the sleep after the removals, or the sleep after the
\* RuntimeError of an iterator whose dictionary changed size
HealthProbe(outcome) ==
    /\ hcPc = "probing"
    /\ LET p == hcCur.peer_id
           after == CASE outcome = "200" -> UpdatePeerStatus(peers, p, "active", dNow)
                      [] outcome = "non200" -> UpdatePeerStatus(peers, p, "inactive", dNow)
                      [] OTHER -> peers
           gone == IF outcome = "exception" /\ hcTime - hcCur.last_seen > Grace
                   THEN inactive_peers \cup {p} ELSE inactive_peers
           since == IF outcome = "200" THEN NoTime
                    ELSE IF failSince[p] = NoTime THEN dNow ELSE failSince[p]
           od == [overdue EXCEPT ![p] = outcome # "200" /\ hcTime - since > Grace]
           rest == Known(after) \ hcSeen
       IN  /\ failSince' = [failSince EXCEPT ![p] = since]
           /\ overdue' = od
           /\ IF Cardinality(Known(after)) # hcSize
              THEN \* RuntimeError: logged by _start_health_check, sleep(10)
                   /\ peers' = after
                   /\ hcSlept' = TRUE
                   /\ EndOfPass([q \in DiscPeers |-> FALSE])
                   /\ UNCHANGED discovered_peers
              ELSE IF rest = {}
              THEN \* the removals, then sleep(60)
                   /\ peers' = RemoveAll(after, gone)
                   /\ discovered_peers' = discovered_peers \ gone
                   /\ hcSlept' = FALSE
                   /\ EndOfPass(od)
              ELSE /\ peers' = after
                   /\ inactive_peers' = gone
                   /\ \E q \in rest :
                          /\ hcCur' = [peer_id |-> q, last_seen |-> after[q].last_seen]
                          /\ hcSeen' = hcSeen \cup {q}
                   /\ UNCHANGED <<discovered_peers, hcSlept, hcPc, hcTime, hcSize,
                                  evicted, round_targets>>
    /\ UNCHANGED dNow

DiscNext ==
    \/ DTick /\ UNCHANGED restOfDisc
    \/ \E p \in DiscPeers : AnnounceVerified(p) /\ UNCHANGED restOfDisc
    \/ \E p \in DiscPeers : ManualAdd(p) /\ UNCHANGED restOfDisc
    \/ \E p \in DiscPeers : ManualRemove(p) /\ UNCHANGED restOfDisc
    \/ StartRound /\ UNCHANGED restOfDisc
    \/ HealthStart /\ UNCHANGED restOfDisc
    \/ \E o \in Outcomes : HealthProbe(o) /\ UNCHANGED restOfDisc

----------------------------------------------------------------------------
\* SpecMute: the registry of SpecDisc when one peer, Mute, never answers
\* GET /p2p/status with 200. Sync rounds read the registry only and are
\* left out.

Mute == "p2"

\* A faulty variant of _verify_and_add_peer: the answer is not looked at
VerifyAndAddPeerAlways(ps, p, answer, now) ==
    AddPeer(ps, p, PeerInfo("active", now))

\* _verify_and_add_peer: the announced record is stored if the status
\* request is answered 200, and dropped otherwise
VerifyAndAddPeer(ps, p, answer, now) ==
    IF answer = "200" THEN AddPeer(ps, p, PeerInfo("active", now)) ELSE ps

\* the answers the node gets from p
Answers(p) == IF p = Mute THEN Outcomes \ {"200"} ELSE Outcomes

MuteVarsInit ==
    /\ muteAdded = FALSE
    /\ muteRefused = FALSE

\* the record of Mute, if any, is the one a membership request stored
MuteHist(added) ==
    muteAdded' = (peers'[Mute] # NoPeer /\ (added \/ muteAdded))

\* _handle_peer_announcement and _verify_and_add_peer
Announce(p, answer) ==
    /\ peers' = VerifyAndAddPeer(peers, p, answer, dNow)
    /\ IF answer = "200"
       THEN /\ discovered_peers' = discovered_peers \cup {p}
            /\ Readmit(p)
            /\ UNCHANGED muteRefused
       ELSE /\ muteRefused' = (muteRefused \/ p = Mute)
            /\ UNCHANGED <<discovered_peers, failSince, overdue, evicted>>
    /\ MuteHist(FALSE)
    /\ UNCHANGED <<dNow, passVars, round_targets>>

MuteNext ==
    \/ DTick /\ UNCHANGED muteVars /\ UNCHANGED restOfMute
    \/ \E p \in DiscPeers : \E a \in Answers(p) : Announce(p, a) /\ UNCHANGED restOfMute
    \/ \E p \in DiscPeers :
           ManualAdd(p) /\ MuteHist(p = Mute) /\ UNCHANGED muteRefused /\ UNCHANGED restOfMute
    \/ \E p \in DiscPeers :
           ManualRemove(p) /\ MuteHist(FALSE) /\ UNCHANGED muteRefused /\ UNCHANGED restOfMute
    \/ HealthStart /\ UNCHANGED muteVars /\ UNCHANGED restOfMute
    \/ \E a \in Answers(hcCur.peer_id) :
           HealthProbe(a) /\ MuteHist(FALSE) /\ UNCHANGED muteRefused /\ UNCHANGED restOfMute

----------------------------------------------------------------------------
\* SpecReg: the operations on the registry, as the announcement listener,
\* the membership endpoints and the health check call them, with the node's
\* own identity among the peer ids that arrive

\* p2p_config.sync_config.node_id
OwnId == "self"
RegIds == DiscPeers \cup {OwnId}
Statuses == {"active", "inactive"}

\* PeerInfo(**peer_data): the record carries its peer_id
PeerData(id, status, seen) == [peer_id |-> id, status |-> status, last_seen |-> seen]

NoOp == [op |-> "none", id |-> "none", known |-> FALSE, changed |-> FALSE]
\* operation op on id took the registry from ps to after
Did(op, id, ps, after) ==
    [op |-> op, id |-> id, known |-> ps[id] # NoPeer, changed |-> after # ps]

RegVarsInit ==
    /\ peers = [p \in RegIds |-> NoPeer]
    /\ discovered_peers = {}
    /\ dNow = 1
    /\ hcPc = "sleeping"
    /\ hcTime = NoTime
    /\ hcCur = NoCur
    /\ hcSeen = {}
    /\ hcSize = 0
    /\ inactive_peers = {}
    /\ hcSlept = TRUE
    /\ round_targets = {}
    /\ failSince = [p \in DiscPeers |-> NoTime]
    /\ overdue = [p \in DiscPeers |-> FALSE]
    /\ evicted = [p \in DiscPeers |-> FALSE]
    /\ regLast = NoOp

\* _handle_peer_announcement: an announcement that is not the node's own is
\* verified, and stored when the status request is answered 200
RegAnnounce(id, answer) ==
    /\ LET after == IF id # OwnId
                    THEN IF answer = "200"
                         THEN AddPeer(peers, id, PeerData(id, "active", dNow))
                         ELSE peers
                    ELSE peers
       IN  /\ peers' = after
           /\ discovered_peers' = IF id # OwnId /\ answer = "200"
                                  THEN discovered_peers \cup {id}
                                  ELSE discovered_peers
           /\ regLast' = Did("announce", id, peers, after)
    /\ UNCHANGED <<dNow, passVars, discHist>>

\* POST /p2p/peers: add_peer(PeerInfo(**peer_data))
RegManualAdd(id, status) ==
    /\ LET after == AddPeer(peers, id, PeerData(id, status, dNow))
       IN  /\ peers' = after
           /\ regLast' = Did("add", id, peers, after)
    /\ UNCHANGED <<discovered_peers, dNow, passVars, discHist>>

\* DELETE /p2p/peers/{peer_id}, and the removals of the health check:
\* remove_peer(peer_id), for a peer_id in the registry or not
RegRemove(id) ==
    /\ LET after == RemovePeer(peers, id)
       IN  /\ peers' = after
           /\ regLast' = Did("remove", id, peers, after)
    /\ UNCHANGED <<discovered_peers, dNow, passVars, discHist>>

\* update_peer_status(peer_id, status), as the health check calls it when a
\* probe returns, for a peer_id that is still in the registry or not
RegSetStatus(id, status) ==
    /\ LET after == UpdatePeerStatus(peers, id, status, dNow)
       IN  /\ peers' = after
           /\ regLast' = Did("set_status", id, peers, after)
    /\ UNCHANGED <<discovered_peers, dNow, passVars, discHist>>

RegNext ==
    \/ DTick /\ UNCHANGED regVars /\ UNCHANGED restOfReg
    \/ \E id \in RegIds, a \in Outcomes : RegAnnounce(id, a) /\ UNCHANGED restOfReg
    \/ \E id \in RegIds, st \in Statuses : RegManualAdd(id, st) /\ UNCHANGED restOfReg
    \/ \E id \in RegIds : RegRemove(id) /\ UNCHANGED restOfReg
    \/ \E id \in RegIds, st \in Statuses : RegSetStatus(id, st) /\ UNCHANGED restOfReg

----------------------------------------------------------------------------
\* SpecApi: the requests GET /p2p/table-changes/{table},
\* POST /p2p/apply-changes/{table}, POST /p2p/notify-changes and the call
\* trigger_sync_after_data_change(table) at one node, one at a time, each
\* followed by the targeted sync it schedules

\* two tables of p2p_config.sync_config.sync_tables, and a name outside it
ConfTables == {"products", "reviews"}
TableNames == ConfTables \cup {"sessions"}
\* notification.get('source_peer') is falsy
NoSource == "none"
\* values of sync_interval: the default, and the limit of the first
\* definition of trigger_sync_after_data_change
Intervals == {30, 60}

\* the outcome of the body of a route handler
Raise(code) == [raised |-> TRUE, code |-> code]
Return(code) == [raised |-> FALSE, code |-> code]

\* try: <body> except Exception as e: raise HTTPException(status_code=500):
\* the HTTPException the body raises is an Exception too
ExceptException(r) == IF r.raised THEN 500 ELSE r.code

\* the body of get_table_changes / apply_table_changes up to the storage
TableBody(table) ==
    IF table \notin ConfTables THEN Raise(400) ELSE Return(200)

\* the body of notify_data_changes up to the peer lookup
NotifyBody(source, tables) ==
    IF source = NoSource \/ tables = <<>> THEN Raise(400) ELSE Return(200)

\* the peers in the order of the registry
RECURSIVE PeerList(_)
PeerList(S) ==
    IF S = {} THEN <<>>
    ELSE LET p == CHOOSE q \in S : \A r \in S : q = r \/ q \in {"p1"}
         IN  <<p>> \o PeerList(S \ {p})

\* A faulty variant of TablesToSync: every named table is synced
TablesToSyncAll(tables) == tables

\* for table in tables: if table in p2p_config.sync_config.sync_tables
TablesToSync(tables) ==
    SelectSeq(tables, LAMBDA t : t \in ConfTables)

\* _sync_specific_tables_with_peer(peer, tables): the pairs in order
PairsOfPeer(p, tables) ==
    [i \in 1..Len(TablesToSync(tables)) |-> <<p, TablesToSync(tables)[i]>>]

\* _sync_specific_tables_with_peers(peers, tables): peer after peer
RECURSIVE PairsOfPeers(_, _)
PairsOfPeers(ps, tables) ==
    IF ps = <<>> THEN <<>>
    ELSE PairsOfPeer(Head(ps), tables) \o PairsOfPeers(Tail(ps), tables)

\* trigger_sync_after_data_change as defined first (sync_manager.py:534):
\* notify every active peer, sync at once if sync_interval < 60
TriggerFirstDefinition(active, interval) ==
    [notified |-> active, scheduled |-> interval < 60 /\ active # {}]

\* trigger_sync_after_data_change as defined again (sync_manager.py:559):
\* no notification, sync at once with the active peers whatever the interval
TriggerSecondDefinition(active, interval) ==
    [notified |-> {}, scheduled |-> active # {}]

\* the method the class ends up with: the later definition replaces the first
TriggerSyncAfterDataChange(active, interval) ==
    TriggerSecondDefinition(active, interval)

NoRequest == [kind |-> "none", table |-> "none", tables |-> <<>>, source |-> NoSource,
              active |-> {}, interval |-> 0, status |-> 0, scheduled |-> FALSE, notified |-> {},
              read |-> FALSE, write |-> FALSE, cursors |-> {}]

ApiVarsInit ==
    /\ sync_interval = 30
    /\ aPc = "idle"
    /\ aLast = NoRequest
    /\ aQueue = <<>>
    /\ aRuns = <<>>
    /\ aCursors = {}

\* no request is being handled and no scheduled sync is running
Quiet == aPc \in {"idle", "finished"}

\* POST /p2p/config: the sync interval is set
SetInterval(i) ==
    /\ Quiet
    /\ sync_interval # i
    /\ sync_interval' = i
    /\ UNCHANGED <<aPc, aLast, aQueue, aRuns, aCursors>>

\* GET /p2p/table-changes/{table}
GetTableChanges(table) ==
    /\ Quiet
    /\ LET r == TableBody(table)
       IN  aLast' = [NoRequest EXCEPT !.kind = "get_changes", !.table = table,
                                      !.status = ExceptException(r),
                                      !.read = ~r.raised, !.cursors = aCursors]
    /\ aPc' = "idle"
    /\ aQueue' = <<>>
    /\ aRuns' = <<>>
    /\ UNCHANGED <<sync_interval, aCursors>>

\* POST /p2p/apply-changes/{table}
ApplyTableChanges(table) ==
    /\ Quiet
    /\ LET r == TableBody(table)
       IN  aLast' = [NoRequest EXCEPT !.kind = "apply_changes", !.table = table,
                                      !.status = ExceptException(r),
                                      !.read = ~r.raised, !.write = ~r.raised,
                                      !.cursors = aCursors]
    /\ aPc' = "idle"
    /\ aQueue' = <<>>
    /\ aRuns' = <<>>
    /\ UNCHANGED <<sync_interval, aCursors>>

\* POST /p2p/notify-changes, with the active peers of that moment
NotifyDataChanges(source, tables, active) ==
    /\ Quiet
    /\ LET r == NotifyBody(source, tables)
           found == ~r.raised /\ source \in active
       IN  /\ aLast' = [NoRequest EXCEPT !.kind = "notify", !.source = source,
                                         !.tables = tables, !.active = active,
                                         !.status = ExceptException(r),
                                         !.scheduled = found, !.cursors = aCursors]
           /\ aQueue' = IF found THEN PairsOfPeer(source, tables) ELSE <<>>
           /\ aPc' = IF found THEN "task" ELSE "idle"
    /\ aRuns' = <<>>
    /\ UNCHANGED <<sync_interval, aCursors>>

\* trigger_sync_after_data_change(table), with the active peers of that moment
TriggerSync(table, active) ==
    /\ Quiet
    /\ LET t == TriggerSyncAfterDataChange(active, sync_interval)
       IN  /\ aLast' = [NoRequest EXCEPT !.kind = "trigger", !.table = table,
                                         !.active = active, !.interval = sync_interval,
                                         !.scheduled = t.scheduled,
                                         !.notified = t.notified, !.cursors = aCursors]
           /\ aQueue' = IF t.scheduled THEN PairsOfPeers(PeerList(active), <<table>>) ELSE <<>>
           /\ aPc' = IF t.scheduled THEN "task" ELSE "idle"
    /\ aRuns' = <<>>
    /\ UNCHANGED <<sync_interval, aCursors>>

\* The scheduled sync runs the table procedure for its next pair: the
\* procedure writes the cursor, or raises and is logged; after the last pair
\* the task ends
TaskStep(ok) ==
    /\ aPc = "task"
    /\ IF aQueue = <<>>
       THEN /\ ok
            /\ aPc' = "finished"
            /\ UNCHANGED <<aQueue, aRuns, aCursors>>
       ELSE /\ aRuns' = Append(aRuns, Head(aQueue))
            /\ aCursors' = IF ok THEN aCursors \cup {Head(aQueue)} ELSE aCursors
            /\ aQueue' = Tail(aQueue)
            /\ UNCHANGED aPc
    /\ UNCHANGED <<sync_interval, aLast>>

ApiNext ==
    \/ \E i \in Intervals : SetInterval(i) /\ UNCHANGED restOfApi
    \/ \E t \in TableNames : GetTableChanges(t) /\ UNCHANGED restOfApi
    \/ \E t \in TableNames : ApplyTableChanges(t) /\ UNCHANGED restOfApi
    \/ \E src \in DiscPeers \cup {NoSource}, ts \in SeqsUpTo(TableNames, MaxTables),
          act \in SUBSET DiscPeers :
           NotifyDataChanges(src, ts, act) /\ UNCHANGED restOfApi
    \/ \E t \in TableNames, act \in SUBSET DiscPeers :
           TriggerSync(t, act) /\ UNCHANGED restOfApi
    \/ \E ok \in BOOLEAN : TaskStep(ok) /\ UNCHANGED restOfApi

----------------------------------------------------------------------------
\* SpecRound: _periodic_sync and POST /p2p/sync/bidirectional at one node:
\* a round goes through the peers it was called with and, for each, through
\* the configured tables, while the registry changes beside it

\* p2p_config.sync_config.sync_tables, in the order of the list
SyncTablesList == <<"products", "reviews">>

\* all pairs a round can meet
RoundPairs == DiscPeers \X {SyncTablesList[i] : i \in 1..Len(SyncTablesList)}

\* self.sync_status = {} of __init__, and the dictionary every locked round
\* starts from
NoRoundStatus == [keys |-> FALSE, tables_synced |-> 0, errors |-> 0, end_time |-> FALSE]
RoundStatus == [keys |-> TRUE, tables_synced |-> 0, errors |-> 0, end_time |-> FALSE]

RoundVarsInit ==
    /\ nActive = {}
    /\ nPc = "idle"
    /\ nKind = "none"
    /\ nPeers = <<>>
    /\ nPos = [peer |-> 1, table |-> 1]
    /\ nAttempts = [pr \in RoundPairs |-> 0]
    /\ nStatus = NoRoundStatus
    /\ nFaults = 0
    /\ nClean = 0

\* discovery, health check and the membership endpoint change the statuses
RegistryChange(p) ==
    /\ nActive' = IF p \in nActive THEN nActive \ {p} ELSE nActive \cup {p}
    /\ UNCHANGED <<nPc, nKind, nPeers, nPos, nAttempts, nStatus, nFaults, nClean>>

\* async with self.sync_lock: self.sync_status = {...}, then the first peer
EnterRound(kind, targets) ==
    /\ nPc = "idle"
    /\ targets # <<>>
    /\ nPc' = "running"
    /\ nKind' = kind
    /\ nPeers' = targets
    /\ nPos' = [peer |-> 1, table |-> 1]
    /\ nAttempts' = [pr \in RoundPairs |-> 0]
    /\ nStatus' = RoundStatus
    /\ nFaults' = 0
    /\ nClean' = 0
    /\ UNCHANGED nActive

\* _periodic_sync: active_peers = get_active_peers(); if active_peers: a round
PeriodicRound == EnterRound("periodic", PeerList(nActive))

\* trigger_bidirectional_sync: the active peer named by peer_id, or all of them
ForcedRound(targets) ==
    /\ \/ targets = PeerList(nActive)
       \/ \E p \in nActive : targets = <<p>>
    /\ EnterRound("forced", targets)

\* A faulty variant of AfterTable: an error leaves the peer's loop of tables
AfterTableAborting(pos, raised) ==
    IF raised \/ pos.table = Len(SyncTablesList)
    THEN [peer |-> pos.peer + 1, table |-> 1]
    ELSE [pos EXCEPT !.table = @ + 1]

\* for peer in peers: for table in sync_tables: try ... except Exception: the
\* next table of the peer, or the first table of the next peer, whether the
\* procedure raised or not
AfterTable(pos, raised) ==
    IF pos.table = Len(SyncTablesList)
    THEN [peer |-> pos.peer + 1, table |-> 1]
    ELSE [pos EXCEPT !.table = @ + 1]

\* number of TRUE among the flags
CountTrue(flags) == Cardinality({i \in DOMAIN flags : flags[i]})

\* _sync_with_peer, one turn of the loop over the tables. Inside
\* _bidirectional_sync_table the fetch of the peer's changes may fail
\* (logged, the data is empty: nothing to apply), the push may fail (logged)
\* and _apply_peer_changes may raise. Only what is raised reaches the
\* handler of _sync_with_peer, which appends the message to errors;
\* otherwise tables_synced += 1. After the last table of the last peer
\* end_time is written and the lock released
TableTurn(getFailed, sendFailed, raised) ==
    /\ nPc = "running"
    /\ raised => ~getFailed
    /\ LET pr == <<nPeers[nPos.peer], SyncTablesList[nPos.table]>>
           next == AfterTable(nPos, raised)
           last == next.peer > Len(nPeers)
           faults == CountTrue(<<getFailed, sendFailed, raised>>)
       IN  /\ nAttempts' = [nAttempts EXCEPT ![pr] = @ + 1]
           /\ nStatus' = [nStatus EXCEPT
                            !.tables_synced = IF raised THEN @ ELSE @ + 1,
                            !.errors = IF raised THEN @ + 1 ELSE @,
                            !.end_time = last]
           /\ nFaults' = nFaults + faults
           /\ nClean' = IF faults = 0 THEN nClean + 1 ELSE nClean
           /\ nPos' = next
           /\ nPc' = IF last THEN "idle" ELSE "running"
    /\ UNCHANGED <<nActive, nKind, nPeers>>

RoundNext ==
    \/ \E p \in DiscPeers : RegistryChange(p) /\ UNCHANGED restOfRound
    \/ PeriodicRound /\ UNCHANGED restOfRound
    \/ \E ts \in SeqsUpTo(DiscPeers, Cardinality(DiscPeers)) : ForcedRound(ts) /\ UNCHANGED restOfRound
    \/ \E getFailed \in BOOLEAN, sendFailed \in BOOLEAN, raised \in BOOLEAN :
           TableTurn(getFailed, sendFailed, raised) /\ UNCHANGED restOfRound

----------------------------------------------------------------------------
\* SpecRows: a node receives POST /p2p/apply-changes/{table} for a
\* configured table; applying a row may fail. The store is PostgreSQL (the
\* INSERT of _insert_record is in its dialect): a statement that fails
\* inside BEGIN ... COMMIT aborts the transaction, every later statement of
\* the transaction fails too, and COMMIT then rolls back.

\* "none": the row is applied; "python": _apply_single_change raises without
\* a statement failing (fromisoformat of a bad updated_at); "sql": a
\* statement fails (a constraint of the table is violated)
FailKinds == {"none", "python", "sql"}

\* the loop over changes["data"], each row inside try/except: the table as
\* the transaction sees it, and whether the transaction is aborted
RECURSIVE ApplyRows(_, _, _, _, _, _)
ApplyRows(st, data, fails, self, source, aborted) ==
    IF data = <<>> THEN [store |-> st, aborted |-> aborted]
    ELSE IF aborted \/ Head(fails) = "python"
         THEN ApplyRows(st, Tail(data), Tail(fails), self, source, aborted)
         ELSE IF Head(fails) = "sql"
              THEN ApplyRows(st, Tail(data), Tail(fails), self, source,
                             Head(data).id # MissingId)
              ELSE ApplyRows(ApplySingleChange(st, Head(data), self, source),
                             Tail(data), Tail(fails), self, source, FALSE)

\* COMMIT: the transaction's writes, or none of them when it is aborted
Commit(before, tx) == IF tx.aborted THEN before ELSE tx.store

\* _apply_peer_changes: nothing for an empty row list; else BEGIN, the rows,
\* COMMIT, then sync_status["conflicts_resolved"] += conflict_count, which
\* raises KeyError when sync_status is still {}: ROLLBACK (after the COMMIT)
\* and raise
ApplyPeerChangesTx(st, data, fails, self, source, keys) ==
    IF data = <<>> THEN [store |-> st, raised |-> FALSE]
    ELSE [store |-> Commit(st, ApplyRows(st, data, fails, self, source, FALSE)),
          raised |-> ~keys]

RowsVarsInit ==
    /\ hFails = <<>>
    /\ hKeys = FALSE
    /\ hResp = 0

\* The request arrives at node hNode from peer hSrc
RowsReceive ==
    /\ hPc = "start"
    /\ hNode' \in {NodeA, NodeB}
    /\ hSrc' = Peer(hNode')
    /\ hStore' \in Stores
    /\ hCs' \in SeqsUpTo(Changes, MaxCsLen)
    /\ hFails' \in [1..Len(hCs') -> FailKinds]
    /\ hKeys' \in BOOLEAN
    /\ hPc' = "received"
    /\ UNCHANGED <<hSrcB, hCsB, hOnce, hTwice, hAB, hBA, hResp>>

\* apply_table_changes: the rows are applied and the answer is 200, or what
\* _apply_peer_changes raises is answered as 500
RowsApply ==
    /\ hPc = "received"
    /\ LET r == ApplyPeerChangesTx(hStore, hCs, hFails, hNode, hSrc, hKeys)
       IN  /\ hOnce' = r.store
           /\ hResp' = ExceptException(IF r.raised THEN Raise(500) ELSE Return(200))
    /\ hPc' = "answered"
    /\ UNCHANGED <<hNode, hStore, hSrc, hCs, hSrcB, hCsB, hTwice, hAB, hBA, hFails, hKeys>>

RowsNext ==
    \/ RowsReceive /\ UNCHANGED restOfRows
    \/ RowsApply /\ UNCHANGED restOfRows

----------------------------------------------------------------------------
\* SpecChain: three nodes; the first and the third each know the second
\* only, the second knows both. Each node runs the table procedure with the
\* active peers of its registry; peers are admitted to and removed from the
\* registries.

First == <<1>>
Middle == <<2>>
Third == <<3>>
ChainNodes == {First, Middle, Third}
\* the peers a node can hear of
Links(n) == IF n = Middle THEN {First, Third} ELSE {Middle}
ChainPairs == {pr \in ChainNodes \X ChainNodes : pr[2] \in Links(pr[1])}
\* the pairs whose peer is removed from the node's registry at times: those
\* of the middle node
LosingPairs == {pr \in ChainPairs : pr[1] = Middle}

NoRun == [by |-> <<>>, since |-> NoTime, resumed |-> FALSE]

ChainVarsInit ==
    /\ cStore = [n \in ChainNodes |-> [k \in SyncKeys |-> NoRow]]
    /\ cCursor = [pr \in ChainPairs |-> NoTime]
    /\ cPeers = [n \in ChainNodes |-> {}]
    /\ cNow = 1
    /\ cLast = NoRun
    /\ cRemoved = [pr \in LosingPairs |-> FALSE]

ChainTick ==
    /\ cNow < MaxTime
    /\ cNow' = cNow + 1
    /\ UNCHANGED <<cStore, cCursor, cPeers, cLast, cRemoved>>

\* A CRUD route of the first node creates or updates the row:
\* updated_at = CURRENT_TIMESTAMP
ChainMutate ==
    /\ cStore[First][1] # Row(cNow, ValOf(First))
    /\ cStore' = [cStore EXCEPT ![First][1] = Row(cNow, ValOf(First))]
    /\ UNCHANGED <<cCursor, cPeers, cNow, cLast, cRemoved>>

\* a verified announcement or POST /p2p/peers: add_peer
ChainAdmit(n, p) ==
    /\ p \in Links(n)
    /\ p \notin cPeers[n]
    /\ cPeers' = [cPeers EXCEPT ![n] = @ \cup {p}]
    /\ UNCHANGED <<cStore, cCursor, cNow, cLast, cRemoved>>

\* A faulty variant of CursorsAfterRemove: the peer's cursors go with it
CursorsAfterRemoveDropped(cur, n, p) == [cur EXCEPT ![<<n, p>>] = NoTime]

\* remove_peer deletes the record from p2p_config.peers and touches nothing
\* of DataSyncManager.last_sync_times
CursorsAfterRemove(cur, n, p) == cur

\* the health check's removal or DELETE /p2p/peers/{peer_id}: remove_peer
ChainRemove(n, p) ==
    /\ p \in cPeers[n]
    /\ cPeers' = [cPeers EXCEPT ![n] = @ \ {p}]
    /\ cCursor' = CursorsAfterRemove(cCursor, n, p)
    /\ cRemoved' = [cRemoved EXCEPT ![<<n, p>>] = TRUE]
    /\ UNCHANGED <<cStore, cNow, cLast>>

\* _bidirectional_sync_table of node n with its active peer p, every call
\* succeeding: both reads since the cursor, the push applied by the peer,
\* the peer's rows applied, the cursor written
ChainSync(n, p) ==
    /\ p \in cPeers[n]
    /\ LET since == cCursor[<<n, p>>]
           our == GetTableChangesSince(cStore[n], since)
           theirs == GetTableChangesSince(cStore[p], SinceParam(since))
       IN  /\ cStore' = [cStore EXCEPT ![p] = ApplyPeerChanges(cStore[p], our, p, n),
                                       ![n] = ApplyPeerChanges(cStore[n], theirs, n, p)]
           /\ cLast' = [by |-> <<n, p>>, since |-> since,
                        resumed |-> <<n, p>> \in LosingPairs /\ cRemoved[<<n, p>>]]
    /\ cCursor' = [cCursor EXCEPT ![<<n, p>>] = cNow]
    /\ cRemoved' = [pr \in LosingPairs |-> pr # <<n, p>> /\ cRemoved[pr]]
    /\ UNCHANGED <<cPeers, cNow>>

ChainNext ==
    \/ ChainTick /\ UNCHANGED restOfChain
    \/ ChainMutate /\ UNCHANGED restOfChain
    \/ \E pr \in ChainPairs : ChainAdmit(pr[1], pr[2]) /\ UNCHANGED restOfChain
    \/ \E pr \in LosingPairs : ChainRemove(pr[1], pr[2]) /\ UNCHANGED restOfChain
    \/ \E pr \in ChainPairs : ChainSync(pr[1], pr[2]) /\ UNCHANGED restOfChain

\* the network when no peer is ever removed
ChainStableNext ==
    \/ ChainTick /\ UNCHANGED restOfChain
    \/ ChainMutate /\ UNCHANGED restOfChain
    \/ \E pr \in ChainPairs : ChainAdmit(pr[1], pr[2]) /\ UNCHANGED restOfChain
    \/ \E pr \in ChainPairs : ChainSync(pr[1], pr[2]) /\ UNCHANGED restOfChain

\* discovery keeps announcing and _periodic_sync keeps running on every node
ChainFairness ==
    /\ \A pr \in ChainPairs : WF_vars(ChainAdmit(pr[1], pr[2]) /\ UNCHANGED restOfChain)
    /\ \A pr \in ChainPairs : WF_vars(ChainSync(pr[1], pr[2]) /\ UNCHANGED restOfChain)

\* C28: a health-check pass suspended on a probe while peers are added or
\* removed still ends normally: it has taken every peer its iterator was
\* made over, and it ends in the sleep of a pass that did not raise
C28_PassNotAborted ==
    [][(hcPc = "probing" /\ hcPc' = "sleeping") =>
          /\ Cardinality(hcSeen) = hcSize
          /\ ~hcSlept']_vars

\* C29: the answer of POST /p2p/apply-changes is 200 whenever the request
\* changed the table, whether or not sync_status has its keys yet, and an
\* answer with an error status means the table is as it was
C29_SuccessIffCommitted ==
    hPc = "answered" =>
        /\ hOnce # hStore => hResp = 200
        /\ hResp # 200 => hOnce = hStore

\* C30: whichever of the periodic, forced, notified and mutation-triggered
\* rounds take a step, and in whatever order, the cursor of the peer and
\* table does not go back and, once set, is not unset
C30_CursorMonotone ==
    [][/\ lCursor' >= lCursor
       /\ lCursor # NoTime => lCursor' # NoTime]_vars

\* the cursor was set at an earlier time by a round outside the lock, and a
\* round under the lock and another outside it are in flight
C30_Witness ==
    /\ lCursor # NoTime
    /\ lCursor < lNow
    /\ lastWrite.by = "notified"
    /\ tPc["periodic"] = "table"
    /\ tPc["mutation"] = "table"

----------------------------------------------------------------------------
\* SpecRace: two calls of _apply_peer_changes with one row each run at the
\* same time on one node, each on its own connection and in its own
\* transaction (READ COMMITTED)

RaceTasks == {1, 2}

RaceVarsInit ==
    /\ qSelf = None
    /\ qTable = None
    /\ qChange = None
    /\ qPc = [p \in RaceTasks |-> "start"]
    /\ qSeen = [p \in RaceTasks |-> NoRow]
    /\ qWrite = [p \in RaceTasks |-> NoRow]
    /\ qErr = [p \in RaceTasks |-> FALSE]

\* Two requests arrive from the peer; each apply acquires a connection and
\* executes BEGIN
RaceArrive ==
    /\ \A p \in RaceTasks : qPc[p] = "start"
    /\ qSelf' \in SyncNodes
    /\ qTable' \in Stores
    /\ qChange' \in [RaceTasks -> {c \in Changes : c.id # MissingId}]
    /\ qPc' = [p \in RaceTasks |-> "begun"]
    /\ UNCHANGED <<qSeen, qWrite, qErr>>

\* SELECT updated_at FROM <table> WHERE id = %s: the committed row
RaceSelect(p) ==
    /\ qPc[p] = "begun"
    /\ qSeen' = [qSeen EXCEPT ![p] = qTable[qChange[p].id]]
    /\ qPc' = [qPc EXCEPT ![p] = "selected"]
    /\ UNCHANGED <<qSelf, qTable, qChange, qWrite, qErr>>

\* A faulty variant of the INSERT, without its ON CONFLICT clause: a row of
\* the id makes the statement raise a unique violation
InsertPlain(committed, change) ==
    IF committed[change.id] = NoRow
    THEN [write |-> RecordData(change), err |-> FALSE]
    ELSE [write |-> NoRow, err |-> TRUE]

\* INSERT ... ON CONFLICT (id) DO NOTHING, once no other transaction holds an
\* uncommitted row of the id: the row written, if any, and whether it raised
InsertOnConflict(committed, change) ==
    IF InsertRecord(committed, change) # committed
    THEN [write |-> RecordData(change), err |-> FALSE]
    ELSE [write |-> NoRow, err |-> FALSE]

\* another transaction has written the row of the id and has not ended
RowHeld(p, k) ==
    \E q \in RaceTasks \ {p} :
        qPc[q] = "written" /\ qWrite[q] # NoRow /\ qChange[q].id = k

\* The rest of _apply_single_change: keep the local row, UPDATE it, or
\* INSERT; a write waits for the transaction holding the row
RaceWrite(p) ==
    /\ qPc[p] = "selected"
    /\ LET c == qChange[p] IN
         IF qSeen[p] # NoRow /\ KeepLocal(qSeen[p], c, qSelf, Peer(qSelf))
         THEN UNCHANGED <<qWrite, qErr>>
         ELSE /\ ~RowHeld(p, c.id)
              /\ LET r == IF qSeen[p] # NoRow
                          THEN [write |-> UpdateRecord(qTable, c)[c.id], err |-> FALSE]
                          ELSE InsertOnConflict(qTable, c)
                 IN /\ qWrite' = [qWrite EXCEPT ![p] = r.write]
                    /\ qErr' = [qErr EXCEPT ![p] = r.err]
    /\ qPc' = [qPc EXCEPT ![p] = "written"]
    /\ UNCHANGED <<qSelf, qTable, qChange, qSeen>>

\* COMMIT: the written row becomes visible, unless the transaction was
\* aborted by a failed statement
RaceCommit(p) ==
    /\ qPc[p] = "written"
    /\ qTable' = IF qWrite[p] # NoRow /\ ~qErr[p]
                 THEN [qTable EXCEPT ![qChange[p].id] = qWrite[p]]
                 ELSE qTable
    /\ qPc' = [qPc EXCEPT ![p] = "done"]
    /\ UNCHANGED <<qSelf, qChange, qSeen, qWrite, qErr>>

RaceNext ==
    \/ RaceArrive /\ UNCHANGED restOfRace
    \/ \E p \in RaceTasks : RaceSelect(p) /\ UNCHANGED restOfRace
    \/ \E p \in RaceTasks : RaceWrite(p) /\ UNCHANGED restOfRace
    \/ \E p \in RaceTasks : RaceCommit(p) /\ UNCHANGED restOfRace

\* C26: when two applies of the same key both find no local row, one of the
\* two inserts stores its row, the other writes nothing and raises no error,
\* and the table ends with that one row for the key
C26_InsertRace ==
    ((\A p \in RaceTasks : qPc[p] = "done" /\ qSeen[p] = NoRow)
        /\ qChange[1].id = qChange[2].id) =>
        /\ \E p \in RaceTasks :
              /\ qWrite[p] = RecordData(qChange[p])
              /\ qWrite[3 - p] = NoRow
              /\ qTable[qChange[p].id] = qWrite[p]
        /\ \A p \in RaceTasks : ~qErr[p]

\* both applies found no row of the key, carry different rows, and the
\* second one's insert was the one that stored its row
C26_Witness ==
    /\ \A p \in RaceTasks : qPc[p] = "done" /\ qSeen[p] = NoRow
    /\ qChange[1].id = qChange[2].id
    /\ RecordData(qChange[1]) # RecordData(qChange[2])
    /\ qTable[qChange[2].id] = RecordData(qChange[2])

----------------------------------------------------------------------------
\* The specifications

ApplyInit == ApplyVarsInit /\ SyncVarsInit /\ LockVarsInit /\ DiscVarsInit /\ MuteVarsInit /\ regLast = NoOp /\ ApiVarsInit /\ RoundVarsInit /\ RowsVarsInit /\ ChainVarsInit /\ RaceVarsInit
SyncInit == ApplyVarsInit /\ SyncVarsInit /\ LockVarsInit /\ DiscVarsInit /\ MuteVarsInit /\ regLast = NoOp /\ ApiVarsInit /\ RoundVarsInit /\ RowsVarsInit /\ ChainVarsInit /\ RaceVarsInit
LockInit == ApplyVarsInit /\ SyncVarsInit /\ LockVarsInit /\ DiscVarsInit /\ MuteVarsInit /\ regLast = NoOp /\ ApiVarsInit /\ RoundVarsInit /\ RowsVarsInit /\ ChainVarsInit /\ RaceVarsInit
DiscInit == ApplyVarsInit /\ SyncVarsInit /\ LockVarsInit /\ DiscVarsInit /\ MuteVarsInit /\ regLast = NoOp /\ ApiVarsInit /\ RoundVarsInit /\ RowsVarsInit /\ ChainVarsInit /\ RaceVarsInit
MuteInit == ApplyVarsInit /\ SyncVarsInit /\ LockVarsInit /\ DiscVarsInit /\ MuteVarsInit /\ regLast = NoOp /\ ApiVarsInit /\ RoundVarsInit /\ RowsVarsInit /\ ChainVarsInit /\ RaceVarsInit
RegInit == ApplyVarsInit /\ SyncVarsInit /\ LockVarsInit /\ RegVarsInit /\ MuteVarsInit /\ ApiVarsInit /\ RoundVarsInit /\ RowsVarsInit /\ ChainVarsInit /\ RaceVarsInit
ApiInit == ApplyVarsInit /\ SyncVarsInit /\ LockVarsInit /\ DiscVarsInit /\ MuteVarsInit /\ regLast = NoOp /\ ApiVarsInit /\ RoundVarsInit /\ RowsVarsInit /\ ChainVarsInit /\ RaceVarsInit
RoundInit == ApplyVarsInit /\ SyncVarsInit /\ LockVarsInit /\ DiscVarsInit /\ MuteVarsInit /\ regLast = NoOp /\ ApiVarsInit /\ RoundVarsInit /\ RowsVarsInit /\ ChainVarsInit /\ RaceVarsInit
ChainInit == ApplyVarsInit /\ SyncVarsInit /\ LockVarsInit /\ DiscVarsInit /\ MuteVarsInit /\ regLast = NoOp /\ ApiVarsInit /\ RoundVarsInit /\ RowsVarsInit /\ ChainVarsInit /\ RaceVarsInit
RaceInit == ApplyVarsInit /\ SyncVarsInit /\ LockVarsInit /\ DiscVarsInit /\ MuteVarsInit /\ regLast = NoOp /\ ApiVarsInit /\ RoundVarsInit /\ RowsVarsInit /\ ChainVarsInit /\ RaceVarsInit
RowsInit == ApplyVarsInit /\ SyncVarsInit /\ LockVarsInit /\ DiscVarsInit /\ MuteVarsInit /\ regLast = NoOp /\ ApiVarsInit /\ RoundVarsInit /\ RowsVarsInit /\ ChainVarsInit /\ RaceVarsInit

SpecApply == ApplyInit /\ [][ApplyNext]_vars
SpecSync == SyncInit /\ [][SyncNext]_vars
SpecLock == LockInit /\ [][LockNext]_vars
SpecDisc == DiscInit /\ [][DiscNext]_vars
SpecMute == MuteInit /\ [][MuteNext]_vars
SpecReg == RegInit /\ [][RegNext]_vars
SpecApi == ApiInit /\ [][ApiNext]_vars
SpecRound == RoundInit /\ [][RoundNext]_vars
SpecRows == RowsInit /\ [][RowsNext]_vars
SpecChain == ChainInit /\ [][ChainNext]_vars
SpecRace == RaceInit /\ [][RaceNext]_vars
SpecChainFair == ChainInit /\ [][ChainStableNext]_vars /\ ChainFairness

----------------------------------------------------------------------------
\* Claims on SpecApply

\* the changeset carries at most one change per row id, as every changeset
\* read from a table does
DistinctIds(data) ==
    \A i, j \in 1..Len(data) : data[i].id = data[j].id => i = j

ChangedAt(change) == FromIsoFormat(change.updated_at)

\* C1: whenever the local row's updated_at is strictly greater than the
\* incoming change's, the stored row is left unchanged, whatever the order of
\* the local node id and the source peer id.
C1_LocalNewerKept ==
    (hPc = "once" /\ DistinctIds(hCs)) =>
        \A i \in 1..Len(hCs) :
            (/\ hCs[i].id # MissingId
             /\ hStore[hCs[i].id] # NoRow
             /\ hStore[hCs[i].id].updated_at > ChangedAt(hCs[i]))
            => hOnce[hCs[i].id] = hStore[hCs[i].id]

\* The two versions of HReceiveTwo: one row id, the versions of hSrc and hSrcB
VersionA == RecordData(hCs[1])
VersionB == RecordData(hCsB[1])
TwoKey == hCs[1].id

\* C2: two versions of a row with equal updated_at, sent by two different
\* peers to a node that holds no newer row: the version of the peer with the
\* lexicographically larger id is retained, in both delivery orders.
C2_TieLargerIdWins ==
    (/\ hPc = "ordered"
     /\ hSrc # hSrcB
     /\ hNode \notin {hSrc, hSrcB}
     /\ VersionA.updated_at = VersionB.updated_at
     /\ hStore[TwoKey] = NoRow)
    => LET winner == IF StrGt(hSrc, hSrcB) THEN VersionA ELSE VersionB
       IN  hAB[TwoKey] = winner /\ hBA[TwoKey] = winner

\* C3: whenever the incoming change's updated_at is strictly greater than the
\* local row's, the local row is overwritten with the incoming values,
\* whatever the order of the local node id and the source peer id.
C3_NewerOverwrites ==
    (hPc \in {"once", "twice"} /\ DistinctIds(hCs)) =>
        \A i \in 1..Len(hCs) :
            (/\ hCs[i].id # MissingId
             /\ hStore[hCs[i].id] # NoRow
             /\ hStore[hCs[i].id].updated_at < ChangedAt(hCs[i]))
            => hOnce[hCs[i].id] = RecordData(hCs[i])

\* C3 witness: a strictly newer change from a peer with a smaller id than the
\* local node's was applied
C3_Witness ==
    /\ hPc = "once"
    /\ DistinctIds(hCs)
    /\ StrGt(hNode, hSrc)
    /\ \E i \in 1..Len(hCs) :
         /\ hCs[i].id # MissingId
         /\ hStore[hCs[i].id] # NoRow
         /\ hStore[hCs[i].id].updated_at < ChangedAt(hCs[i])
         /\ hStore[hCs[i].id].val # hCs[i].val
         /\ hOnce[hCs[i].id] = RecordData(hCs[i])

\* C4: applying the same changeset a second time, with no local mutation in
\* between, leaves the rows that applying it once left.
C4_Idempotent ==
    hPc = "twice" => hTwice = hOnce

\* C4 witness: a changeset of two changes that altered the table, one row
\* updated and one inserted, was applied twice
C4_Witness ==
    /\ hPc = "twice"
    /\ Len(hCs) = 2
    /\ hOnce # hStore
    /\ \E i, j \in 1..2 :
         /\ hCs[i].id # MissingId /\ hCs[j].id # MissingId
         /\ hStore[hCs[i].id] = NoRow /\ hStore[hCs[j].id] # NoRow
         /\ hOnce[hCs[j].id] # hStore[hCs[j].id]

\* C5: two incoming versions of one row, any updated_at, any sources: applying
\* them in one order or the other leaves the same stored row.
C5_Commutative ==
    hPc = "ordered" => hAB[TwoKey] = hBA[TwoKey]

----------------------------------------------------------------------------
\* Claims on SpecSync

\* the round of n has run to its end, undisturbed
RoundDone(n) == rPc[n] = "done" /\ rClean[n]

\* C6: nodes A and B each hold a different version of a row; one
\* bidirectional round between them exchanges both versions (the GET and the
\* POST succeed) and completes with no local mutation in between: both nodes
\* then store the same version.
C6_PairwiseConvergence ==
    \A n \in SyncNodes : \A k \in SyncKeys :
        (/\ RoundDone(n)
         /\ rGetOk[n] /\ rSendOk[n]
         /\ k \in IdsOf(rOur[n]) /\ k \in IdsOf(rTheirs[n])
         /\ RecordData(ChangeFor(rOur[n], k)) # RecordData(ChangeFor(rTheirs[n], k)))
        => store[n][k] = store[Peer(n)][k]

\* C7: a row created on one node and absent from the other when a
\* bidirectional round between them begins is, when the round has completed,
\* stored on the other node with the same values, and the initiator's cursor
\* is at least the row's updated_at.
C7_UnionConvergence ==
    \A n \in SyncNodes : \A k \in SyncKeys :
        /\ (RoundDone(n) /\ k \in rSnap[n].own /\ k \notin rSnap[n].peer)
           => /\ store[Peer(n)][k] = store[n][k]
              /\ last_sync_times[n][Peer(n)] >= store[n][k].updated_at
        /\ (RoundDone(n) /\ k \in rSnap[n].peer /\ k \notin rSnap[n].own)
           => /\ store[n][k] = store[Peer(n)][k]
              /\ last_sync_times[n][Peer(n)] >= store[Peer(n)][k].updated_at

\* C8: whenever a cursor exists for the peer, every local row whose
\* updated_at is at or below the cursor is a version the peer applied or
\* sent.
C8_CursorIsWatermark ==
    \A n \in SyncNodes : \A k \in SyncKeys :
        (/\ last_sync_times[n][Peer(n)] # NoTime
         /\ store[n][k] # NoRow
         /\ store[n][k].updated_at <= last_sync_times[n][Peer(n)])
        => k \in synced[n]

----------------------------------------------------------------------------
\* Claims on SpecLock

\* C9: every write a sync round makes to sync_status or to the cursor,
\* whether the round is periodic, forced, notified or started by a local
\* mutation, is made by a task that holds sync_lock.
C9_WritesUnderLock ==
    lastWrite.held

----------------------------------------------------------------------------
\* Claims on SpecDisc

\* C10: a peer that has failed every health probe for more than 2 minutes
\* is, from the end of the completed pass that found it so, not among the
\* active peers and not a target of a sync round started since, until a
\* verified announcement (or a membership request) admits it again.
C10_EvictedNotTargeted ==
    \A p \in DiscPeers :
        evicted[p] => p \notin GetActivePeers(peers) /\ p \notin round_targets

\* the pass takes the answer to the probe of hcCur and moves on
ProbeStep == hcPc = "probing" /\ (hcPc' = "sleeping" \/ hcSeen' # hcSeen)

\* C11: when a probe of a health-check pass returns, the probed peer, if it
\* is still in the registry, has status active if the probe was answered 200
\* and status inactive if the probe failed in any way (non-200 answer,
\* connection error, timeout).
C11_ProbeSetsStatus ==
    [][ProbeStep =>
        LET p == hcCur.peer_id
        IN  peers'[p] # NoPeer =>
                peers'[p].status = IF failSince'[p] = NoTime THEN "active" ELSE "inactive"]_vars

\* C12: a peer that a completed pass found failing more than 2 minutes into
\* its run of failed probes, whether by non-200 answers or by connection
\* errors, is in neither the registry nor the discovered set, until it is
\* admitted again.
C12_EvictedRemoved ==
    \A p \in DiscPeers :
        evicted[p] => peers[p] = NoPeer /\ p \notin discovered_peers

----------------------------------------------------------------------------
\* Claims on SpecMute

\* C13 (as stated): a peer that never answers GET /p2p/status with 200 is
\* never among the active peers, after any sequence of announcements,
\* membership requests and health checks.
C13_MuteNeverActive ==
    Mute \notin GetActivePeers(peers)

\* C13 (amended): a peer that never answers GET /p2p/status with 200 is in
\* the registry, and so among the active peers, only through a record that a
\* membership request (POST /p2p/peers) stored; announcements and health
\* checks never admit it.
C13_MuteOnlyByRequest ==
    peers[Mute] # NoPeer => muteAdded

\* C13 witness: an announcement of Mute was refused, the other peer was
\* admitted and probed, and Mute is not in the registry
C13_Witness ==
    /\ muteRefused
    /\ ~muteAdded
    /\ peers[Mute] = NoPeer
    /\ \E p \in DiscPeers \ {Mute} : p \in GetActivePeers(peers) /\ p \in discovered_peers
    /\ hcPc = "sleeping" /\ ~hcSlept

----------------------------------------------------------------------------
\* Claims on SpecReg

\* C14: in every reachable state each record of the registry is stored
\* under its own peer_id, so there is at most one record per peer_id, and no
\* record has the node's own identity, after any sequence of announcements
\* (the node's own among them) and POST /p2p/peers requests.
C14_RegistryInvariant ==
    /\ \A k \in Known(peers) : peers[k].peer_id = k
    /\ peers[OwnId] = NoPeer

\* C15: remove and set_status for a peer_id that is not in the registry
\* leave the registry as it was (neither operation touches the dictionary
\* before it has found the peer_id in it), so a second remove of the same
\* peer_id changes nothing.
C15_UnknownIsNoOp ==
    (regLast.op \in {"remove", "set_status"} /\ ~regLast.known) => ~regLast.changed

\* C15 witness: set_status was called for a peer_id that is not in a
\* registry that holds another peer
C15_Witness ==
    /\ regLast.op = "set_status"
    /\ ~regLast.known
    /\ peers[regLast.id] = NoPeer
    /\ Known(peers) # {}

\* C16: when trigger_sync_after_data_change is called for a table, a
\* tables-changed notification goes to every peer active at that moment, and
\* the immediate targeted sync is scheduled only when sync_interval < 60.
C16_TriggerNotifiesAndGates ==
    aLast.kind = "trigger" =>
        /\ aLast.notified = aLast.active
        /\ aLast.scheduled => aLast.interval < 60

\* C17: a notification with a source peer and a non-empty table list
\* schedules a sync with that peer alone, which runs the table procedure for
\* exactly the named tables of the replication set, in the order named; when
\* the source is not an active peer nothing is scheduled, nothing runs and
\* no cursor changes.
C17_NotifySyncsNamedTables ==
    (aLast.kind = "notify" /\ aLast.source # NoSource /\ aLast.tables # <<>>) =>
        LET named == SelectSeq(aLast.tables, LAMBDA t : t \in {"products", "reviews"})
        IN  IF aLast.source \in aLast.active
            THEN /\ aLast.scheduled
                 /\ aPc \in {"task", "finished"}
                 /\ Len(aRuns) <= Len(named)
                 /\ \A i \in 1..Len(aRuns) : aRuns[i] = <<aLast.source, named[i]>>
                 /\ aPc = "finished" => Len(aRuns) = Len(named)
            ELSE /\ ~aLast.scheduled
                 /\ aPc = "idle"
                 /\ aRuns = <<>>
                 /\ aCursors = aLast.cursors

\* A notification from an active peer naming a table outside the replication
\* set and one inside it has been answered and its sync has ended, having
\* run the one table
C17_Witness ==
    /\ aLast.kind = "notify"
    /\ aLast.source \in aLast.active
    /\ aLast.tables = <<"sessions", "products">>
    /\ aPc = "finished"
    /\ aRuns = <<<<aLast.source, "products">>>>

\* C18: a request for a table outside the replication set, and a
\* notification without source_peer or without tables, are answered with
\* status 400, with no read or write of the store and nothing scheduled.
C18_InvalidIs400 ==
    LET invalid ==
            \/ aLast.kind \in {"get_changes", "apply_changes"} /\ aLast.table \notin ConfTables
            \/ aLast.kind = "notify" /\ (aLast.source = NoSource \/ aLast.tables = <<>>)
    IN  invalid => aLast.status = 400 /\ ~aLast.read /\ ~aLast.write /\ ~aLast.scheduled

C20_EveryPairOnce ==
    LET tables == {"products", "reviews"}
        inRound == {nPeers[i] : i \in 1..Len(nPeers)}
        before(pr) == \E i \in 1..Len(nPeers) :
                          /\ nPeers[i] = pr[1]
                          /\ \/ i < nPos.peer
                             \/ i = nPos.peer /\ \E j \in 1..(nPos.table - 1) : SyncTablesList[j] = pr[2]
    IN  /\ (nPc = "idle" /\ nKind # "none") =>
               /\ \A pr \in DiscPeers \X tables :
                      nAttempts[pr] = IF pr[1] \in inRound THEN 1 ELSE 0
               /\ nStatus.end_time
               /\ nStatus.tables_synced + nStatus.errors = Len(nPeers) * Cardinality(tables)
        /\ nPc = "running" =>
               /\ \A pr \in DiscPeers \X tables :
                      nAttempts[pr] = IF before(pr) THEN 1 ELSE 0
               /\ ~nStatus.end_time

\* A periodic round over two peers has ended with an error on one pair and
\* the three other pairs synced, while a peer of the round is no longer active
C20_Witness ==
    /\ nPc = "idle"
    /\ nKind = "periodic"
    /\ Len(nPeers) = 2
    /\ nStatus.errors = 1
    /\ nStatus.tables_synced = 3
    /\ nStatus.end_time
    /\ \E i \in 1..2 : nPeers[i] \notin nActive

\* C21: when a round has ended, its errors hold an entry for every failed
\* fetch, failed push and failed apply that occurred in it, and
\* tables_synced is the number of its pairs that met none of them.
C21_ErrorsRecorded ==
    (nPc = "idle" /\ nKind # "none") =>
        /\ nStatus.errors >= nFaults
        /\ nStatus.tables_synced = nClean

\* C22: a run of the table procedure whose GET met a non-200 answer, a
\* network failure or a 200 body without a row list applies no incoming row
\* (the node's store is as before when the run leaves its apply step), and
\* when it has pushed local rows to the peer it ends normally.
C22_MalformedIsZeroChanges ==
    [][\A n \in SyncNodes :
          (rPc[n] = "apply" /\ rPc'[n] # "apply" /\ (~rGetOk[n] \/ ~rKeyed[n])) =>
              /\ store'[n] = store[n]
              /\ (rOur[n] # <<>> /\ rSendOk[n]) => rPc'[n] = "done"]_vars

\* the rows of a changeset whose application does not fail
RECURSIVE Unfailed(_, _)
Unfailed(data, fails) ==
    IF data = <<>> THEN <<>>
    ELSE IF Head(fails) = "none"
         THEN <<Head(data)>> \o Unfailed(Tail(data), Tail(fails))
         ELSE Unfailed(Tail(data), Tail(fails))

\* C23: after a changeset has been applied, the table is what applying its
\* rows that did not fail, in their order, makes of it: a failing row is
\* skipped and the rows before and after it are applied and committed.
C23_FailedRowSkipped ==
    hPc = "answered" =>
        hOnce = ApplyPeerChanges(hStore, Unfailed(hCs, hFails), hNode, hSrc)

\* the ids of the rows of a table that changed after the time since
NewerThan(st, since) == {k \in Present(st) : st[k].updated_at > since}

\* C24: a run of the table procedure takes the stored cursor as since. With
\* the cursor absent it offers the peer every local row and, when the GET
\* succeeds, receives every row of the peer; with a cursor it offers and
\* receives the rows changed after the cursor. A cursor, once written, is
\* never absent again.
C24_FullThenIncremental ==
    [][\A n \in SyncNodes :
          LET c == last_sync_times[n][Peer(n)]
          IN  /\ (rPc[n] = "idle" /\ rPc'[n] = "get") =>
                     /\ rSince'[n] = c
                     /\ IdsOf(rOur'[n]) = IF c = NoTime THEN Present(store[n])
                                          ELSE NewerThan(store[n], c)
              /\ (rPc[n] = "get" /\ rPc'[n] = "send" /\ rGetOk'[n]) =>
                     IdsOf(rTheirs'[n]) = IF rSince[n] = NoTime THEN Present(store[Peer(n)])
                                          ELSE NewerThan(store[Peer(n)], rSince[n])
              /\ c # NoTime => last_sync_times'[n][Peer(n)] # NoTime]_vars

\* A run that started from a stored cursor has offered nothing, although the
\* node holds a row, and has received the row the peer changed after the cursor
C24_Witness ==
    \E n \in SyncNodes :
        /\ rPc[n] = "send"
        /\ rSince[n] # NoTime
        /\ rSince[n] = last_sync_times[n][Peer(n)]
        /\ Present(store[n]) # {}
        /\ rOur[n] = <<>>
        /\ rGetOk[n]
        /\ rTheirs[n] # <<>>

\* C25: a peer whose record was removed from the registry while the pair had
\* a cursor, and which is admitted again, is synced from that cursor: the
\* first run after the removal takes as since the cursor the pair had, and
\* the cursor of a pair whose peer is out of the registry is as it was.
C25_CursorRetained ==
    [][\A pr \in ChainPairs :
          /\ (pr[2] \in cPeers[pr[1]] /\ pr[2] \notin cPeers'[pr[1]]) =>
                 cCursor'[pr] = cCursor[pr]
          /\ pr[2] \notin cPeers[pr[1]] => cCursor'[pr] = cCursor[pr]
          /\ (cLast' # cLast /\ cLast'.by = pr) => cLast'.since = cCursor[pr]]_vars

\* The third node was removed from the middle node's registry while their
\* pair had a cursor, was admitted again, and the first run since took that
\* cursor as since
C25_Witness ==
    /\ cLast.by = <<Middle, Third>>
    /\ cLast.resumed
    /\ cLast.since # NoTime
    /\ Third \in cPeers[Middle]

\* C27: once the first node holds the row, every node eventually holds it,
\* the third node having no peer but the middle one.
C27_TransitivePropagation ==
    (cStore[First][1] # NoRow) ~> (\A n \in ChainNodes : cStore[n][1] # NoRow)

====
